---- MODULE Spec2Model ----
(***************************************************************************)
(* A model of the DWR response decoder of blackboard/dwr.py (parse_js and  *)
(* js_object_parse).                                                       *)
(*                                                                         *)
(* Text is a sequence of one-character strings.  An offset p is a Python   *)
(* string offset: it lies before the character s[p+1], so code[a:b] is     *)
(* SubSeq(s, a+1, b).  Python objects that parse_js mutates (the values    *)
(* bound in `locals`) live in a heap and are referred to by address, so    *)
(* that the list appended to `results` shares them with `locals` exactly   *)
(* as the Python lists and dictionaries are shared.                        *)
(***************************************************************************)
EXTENDS Integers, Sequences, FiniteSets, TLC

VARIABLES
    code,        \* the argument of parse_js
    items,       \* history: the statements and fragments code was rendered from
    i,           \* parse_js: i, the end offset of the last match
    locals,      \* parse_js: locals, name -> address of the bound object
    heap,        \* the objects bound so far, by address
    results,     \* parse_js: results
    exceptions,  \* parse_js: exceptions
    outcome,     \* how the call ended: a returned mapping or a raised exception
    trace,       \* history: one record per loop iteration that ran its branch
    other,       \* the frame of a parse_js call in another thread, suspended
    earlier,     \* history: the input and the outcome of the first decode
    session,     \* the session: _script_session_id, unset at first
    attempts,    \* dwr_get_attempts_info: attempts
    batch_size,  \* dwr_get_attempts_info: batch_size
    batch,       \* dwr_get_attempts_info: i, and how far the iteration is
    info,        \* dwr_get_attempts_info: results
    status,      \* how dwr_get_attempts_info ended, or that it runs
    wire,        \* history: the requests that went to the server
    students,        \* Gradebook: self.students
    assignment_ids,  \* Gradebook: self.assignment_ids
    fetch_time,      \* Gradebook: self.fetch_time, the clock counting refreshes
    prev,            \* Gradebook.refresh: prev
    attempt_keys,    \* Gradebook.refresh_attempts: attempt_keys
    refresh          \* how far Gradebook.refresh is, and how it ended

\* the state of the Gradebook
gradebook == <<students, assignment_ids, fetch_time, prev, attempt_keys,
               refresh>>

\* the state of dwr_get_attempts_info and of the session it uses
fetching == <<session, attempts, batch_size, batch, info, status, wire>>

\* what lies around one call of parse_js
around == <<other, earlier, fetching, gradebook>>

vars == <<code, items, i, locals, heap, results, exceptions, outcome, trace,
          around>>

\* ------------------------------------------------------------ characters

Lower == {"a","b","c","d","e","f","g","h","i","j","k","l","m",
          "n","o","p","q","r","s","t","u","v","w","x","y","z"}

Upper == {"A","B","C","D","E","F","G","H","I","J","K","L","M",
          "N","O","P","Q","R","S","T","U","V","W","X","Y","Z"}

Digit == {"0","1","2","3","4","5","6","7","8","9"}

\* [a-zA-Z_] and [a-zA-Z0-9_] of the pattern `id`
IdStart == Lower \cup Upper \cup {"_"}

IdChar == IdStart \cup Digit

\* the characters str.strip() removes
Whitespace == {" ", "\t", "\n", "\r", "\f"}

Quote == {"'", "\""}

\* ------------------------------------------------------------ text helpers

\* code[a:b]
Slice(s, a, b) == SubSeq(s, a + 1, b)

\* the character at offset p, "" past the end
At(s, p) == IF p >= 0 /\ p < Len(s) THEN s[p + 1] ELSE ""

\* whether the literal text lit stands at offset p
HasLit(s, p, lit) ==
    /\ p >= 0
    /\ p + Len(lit) <= Len(s)
    /\ SubSeq(s, p + 1, p + Len(lit)) = lit

RECURSIVE LStrip(_)
LStrip(s) ==
    IF s # <<>> /\ Head(s) \in Whitespace THEN LStrip(Tail(s)) ELSE s

RECURSIVE RStrip(_)
RStrip(s) ==
    IF s # <<>> /\ s[Len(s)] \in Whitespace
    THEN RStrip(SubSeq(s, 1, Len(s) - 1))
    ELSE s

\* str.strip()
Strip(s) == RStrip(LStrip(s))

\* str.split(sep) for a one-character separator
RECURSIVE SplitFrom(_, _, _, _)
SplitFrom(s, sep, from, p) ==
    IF p >= Len(s) THEN <<Slice(s, from, Len(s))>>
    ELSE IF s[p + 1] = sep
         THEN <<Slice(s, from, p)>> \o SplitFrom(s, sep, p + 1, p + 1)
         ELSE SplitFrom(s, sep, from, p + 1)

Split(s, sep) == SplitFrom(s, sep, 0, 0)

RECURSIVE Concat(_)
Concat(ss) == IF ss = <<>> THEN <<>> ELSE Head(ss) \o Concat(Tail(ss))

\* int(text) for a text of decimal digits
DigitVal(c) ==
    CASE c = "0" -> 0 [] c = "1" -> 1 [] c = "2" -> 2 [] c = "3" -> 3
      [] c = "4" -> 4 [] c = "5" -> 5 [] c = "6" -> 6 [] c = "7" -> 7
      [] c = "8" -> 8 [] c = "9" -> 9

RECURSIVE IntOf(_)
IntOf(s) ==
    IF s = <<>> THEN 0
    ELSE 10 * IntOf(SubSeq(s, 1, Len(s) - 1)) + DigitVal(s[Len(s)])

\* ------------------------------------------------------------ the patterns

(***************************************************************************)
(* The alternatives of `pattern` are matched by hand.  A definition that   *)
(* needs an intermediate result hands it to the next definition as an      *)
(* argument.                                                               *)
(***************************************************************************)

\* id = [a-zA-Z_][a-zA-Z0-9_]*: the end of the identifier at p, -1 if none.
\* Every use is followed by a character outside IdChar, so the greedy end is
\* the only one a match can use.
RECURSIVE IdRun(_, _)
IdRun(s, p) == IF At(s, p) \in IdChar THEN IdRun(s, p + 1) ELSE p

IdEnd(s, p) == IF At(s, p) \in IdStart THEN IdRun(s, p + 1) ELSE -1

\* \d+ followed by a quote
RECURSIVE DigitRun(_, _)
DigitRun(s, p) == IF At(s, p) \in Digit THEN DigitRun(s, p + 1) ELSE p

DigitsEnd(s, p) == IF At(s, p) \in Digit THEN DigitRun(s, p + 1) ELSE -1

\* '(?:[^\\']|\\.)*' and "(?:[^\\"]|\\.)*" from inside the opening quote q:
\* the offset after the closing quote, -1 if the string does not close.
\* `.` does not match a newline.
RECURSIVE StrEnd(_, _, _)
StrEnd(s, t, q) ==
    IF t >= Len(s) THEN -1
    ELSE IF s[t + 1] = q THEN t + 1
    ELSE IF s[t + 1] = "\\"
         THEN IF t + 1 < Len(s) /\ s[t + 2] # "\n"
              THEN StrEnd(s, t + 2, q)
              ELSE -1
         ELSE StrEnd(s, t + 1, q)

\* one repetition of obj = (?:[^;'"]|'...'|"...")* at p: the offset after it,
\* -1 if obj cannot go on.  The three alternatives exclude each other on their
\* first character, so the repetitions of obj from p are one fixed sequence.
ObjTok(s, p) ==
    IF p >= Len(s) THEN -1
    ELSE IF s[p + 1] = ";" THEN -1
    ELSE IF s[p + 1] \in Quote THEN StrEnd(s, p + 1, s[p + 1])
    ELSE p + 1

\* the offsets at which obj, started at p, can end (ascending)
RECURSIVE ObjBounds(_, _)
ObjBounds(s, p) ==
    LET Via(n) == IF n = -1 THEN <<p>> ELSE <<p>> \o ObjBounds(s, n)
    IN  Via(ObjTok(s, p))

\* the greedy end of obj started at p
RECURSIVE ObjMax(_, _)
ObjMax(s, p) ==
    LET Via(n) == IF n = -1 THEN p ELSE ObjMax(s, n)
    IN  Via(ObjTok(s, p))

\* the greatest element of a set of offsets, -1 if it is empty
MaxOf(S) == IF S = {} THEN -1 ELSE CHOOSE x \in S : \A y \in S : y <= x

InSeq(x, sq) == \E k \in 1..Len(sq) : sq[k] = x

Range(sq) == {sq[k] : k \in 1..Len(sq)}

Chars_throw == <<"t","h","r","o","w"," ">>

Chars_var == <<"v","a","r"," ">>

Chars_callback ==
    <<"d","w","r",".","e","n","g","i","n","e",".","_","r","e","m","o","t","e",
      "H","a","n","d","l","e","C","a","l","l","b","a","c","k","(">>

Chars_exception ==
    <<"d","w","r",".","e","n","g","i","n","e",".","_","r","e","m","o","t","e",
      "H","a","n","d","l","e","E","x","c","e","p","t","i","o","n","(">>

Chars_javaClassName ==
    <<"{","j","a","v","a","C","l","a","s","s","N","a","m","e",":">>

Chars_message == <<",","m","e","s","s","a","g","e",":">>

\* what a pattern yields when it does not match at the offset tried
NoMatch == [key |-> "none", start |-> -1, end |-> -1, own |-> <<>>]

\* a match of alternative k over code[j:e] whose groups, the named group
\* first, are g
Matched(k, j, e, g) == [key |-> k, start |-> j, end |-> e, own |-> g]

\* ('throw', "throw "+obj+";"), e the greedy end of obj
MatchThrow(s, j) ==
    LET End(e) == IF At(s, e) = ";"
                  THEN Matched("throw", j, e + 1, <<Slice(s, j, e + 1)>>)
                  ELSE NoMatch
    IN  IF HasLit(s, j, Chars_throw) THEN End(ObjMax(s, j + 6)) ELSE NoMatch

\* ('comment', '//(.*)')
RECURSIVE LineEnd(_, _)
LineEnd(s, p) ==
    IF p < Len(s) /\ s[p + 1] # "\n" THEN LineEnd(s, p + 1) ELSE p

MatchComment(s, j) ==
    LET End(e) == Matched("comment", j, e, <<Slice(s, j, e), Slice(s, j + 2, e)>>)
    IN  IF HasLit(s, j, <<"/", "/">>) THEN End(LineEnd(s, j + 2)) ELSE NoMatch

\* ('var', 'var ('+id+')=('+obj+');'), n the end of id, e that of obj
MatchVar(s, j) ==
    LET End(n, e) ==
            IF At(s, e) = ";"
            THEN Matched("var", j, e + 1,
                         <<Slice(s, j, e + 1), Slice(s, j + 4, n),
                           Slice(s, n + 1, e)>>)
            ELSE NoMatch
        Name(n) ==
            IF n # -1 /\ At(s, n) = "=" THEN End(n, ObjMax(s, n + 1))
            ELSE NoMatch
    IN  IF HasLit(s, j, Chars_var) THEN Name(IdEnd(s, j + 4)) ELSE NoMatch

\* ('setattr', '('+id+')\\.('+id+')=('+obj+');'), n and f the ends of the
\* two id, e that of obj
MatchSetattr(s, j) ==
    LET End(n, f, e) ==
            IF At(s, e) = ";"
            THEN Matched("setattr", j, e + 1,
                         <<Slice(s, j, e + 1), Slice(s, j, n),
                           Slice(s, n + 1, f), Slice(s, f + 1, e)>>)
            ELSE NoMatch
        Field(n, f) ==
            IF f # -1 /\ At(s, f) = "=" THEN End(n, f, ObjMax(s, f + 1))
            ELSE NoMatch
        Name(n) ==
            IF n # -1 /\ At(s, n) = "." THEN Field(n, IdEnd(s, n + 1))
            ELSE NoMatch
    IN  Name(IdEnd(s, j))

\* ('setitem', '('+id+r')\[('+obj+r')\]=('+obj+');'): the first obj is greedy,
\* so it ends at b, the last of its ends bs that lets the rest match; n is the
\* end of id and e that of the second obj
MatchSetitem(s, j) ==
    LET End(n, b, e) ==
            Matched("setitem", j, e + 1,
                    <<Slice(s, j, e + 1), Slice(s, j, n), Slice(s, n + 1, b),
                      Slice(s, b + 2, e)>>)
        Key(n, b) == IF b # -1 THEN End(n, b, ObjMax(s, b + 2)) ELSE NoMatch
        KeyEnd(bs) ==
            MaxOf({b \in Range(bs) : /\ HasLit(s, b, <<"]", "=">>)
                                     /\ At(s, ObjMax(s, b + 2)) = ";"})
        Name(n) ==
            IF n # -1 /\ At(s, n) = "[" THEN Key(n, KeyEnd(ObjBounds(s, n + 1)))
            ELSE NoMatch
    IN  Name(IdEnd(s, j))

\* "'(\d+)','(\d+)'," after the opening parenthesis at p: the two numbers and
\* the offset after the second comma, or ok = FALSE.  a2 and b2 are the ends
\* of the numbers.
NoIds == [ok |-> FALSE, batch |-> <<>>, call |-> <<>>, next |-> -1]

IdsAt(s, p) ==
    LET Call(a2, b2) ==
            IF b2 # -1 /\ HasLit(s, b2, <<"'", ",">>)
            THEN [ok |-> TRUE, batch |-> Slice(s, p + 1, a2),
                  call |-> Slice(s, a2 + 3, b2), next |-> b2 + 2]
            ELSE NoIds
        Batch(a2) ==
            IF At(s, p) = "'" /\ a2 # -1 /\ HasLit(s, a2, <<"'", ",", "'">>)
            THEN Call(a2, DigitsEnd(s, a2 + 3))
            ELSE NoIds
    IN  Batch(DigitsEnd(s, p + 1))

\* id(?:,id)* at p: the offset after the identifier list, -1 if none
RECURSIVE IdListEnd(_, _)
IdListEnd(s, p) ==
    LET More(n, more) == IF more # -1 THEN more ELSE n
        Next(n) ==
            IF n = -1 THEN -1
            ELSE IF At(s, n) = "," THEN More(n, IdListEnd(s, n + 1))
            ELSE n
    IN  Next(IdEnd(s, p))

\* ('call', r"dwr\.engine\._remoteHandleCallback\('(\d+)','(\d+)',\[(...)\]\);")
\* a the offset after the bracket, l the end of the identifier list (the list
\* is optional), b the end of group 3
MatchCall(s, j) ==
    LET End(ids, a, b) ==
            IF b # -1
            THEN Matched("call", j, b + 3,
                         <<Slice(s, j, b + 3), ids.batch, ids.call,
                           Slice(s, a, b)>>)
            ELSE NoMatch
        List(ids, a, l) ==
            End(ids, a,
                MaxOf({b \in {a, l} :
                          b # -1 /\ HasLit(s, b, <<"]", ")", ";">>)}))
        Ids(ids) ==
            IF ids.ok /\ At(s, ids.next) = "["
            THEN List(ids, ids.next + 1, IdListEnd(s, ids.next + 1))
            ELSE NoMatch
    IN  IF HasLit(s, j, Chars_callback)
        THEN Ids(IdsAt(s, j + Len(Chars_callback)))
        ELSE NoMatch

\* kv = (?:obj):(?:id).  Whether code[a:b] is kv(?:,kv)*: obj takes commas and
\* colons too, so the text is such a list exactly when it is one kv, that is
\* when it ends with a colon and an identifier and what precedes is an obj
\* (bs are the ends of obj from a).
IsKvList(s, a, b, bs) ==
    \E c \in a..(b - 2) :
        /\ s[c + 1] = ":"
        /\ IdEnd(s, c + 1) = b
        /\ InSeq(c, bs)

\* ('calldict', ...\{((?:kv(?:,kv)*)?)\}\);): nothing in the group matches an
\* unquoted semicolon, so the match ends at the first one after the brace,
\* which is where the ends bs of obj from a stop (at m)
MatchCalldict(s, j) ==
    LET End(ids, a, bs, m) ==
            IF /\ At(s, m) = ";"
               /\ m - 2 >= a
               /\ HasLit(s, m - 2, <<"}", ")">>)
               /\ InSeq(m - 2, bs)
               /\ InSeq(m - 1, bs)
               /\ (m - 2 = a \/ IsKvList(s, a, m - 2, bs))
            THEN Matched("calldict", j, m + 1,
                         <<Slice(s, j, m + 1), ids.batch, ids.call,
                           Slice(s, a, m - 2)>>)
            ELSE NoMatch
        Body(ids, a, bs) == End(ids, a, bs, bs[Len(bs)])
        Ids(ids) ==
            IF ids.ok /\ At(s, ids.next) = "{"
            THEN Body(ids, ids.next + 1, ObjBounds(s, ids.next + 1))
            ELSE NoMatch
    IN  IF HasLit(s, j, Chars_callback)
        THEN Ids(IdsAt(s, j + Len(Chars_callback)))
        ELSE NoMatch

\* ('exception', ...\{javaClassName:(obj),message:(obj)\}\);): the first obj
\* is greedy and ends at the last ",message:" that lets the rest match; bs are
\* the ends of obj from a, m the last of them, b the end of the first obj
MatchException(s, j) ==
    LET End(ids, a, bs, m, b) ==
            IF /\ At(s, m) = ";"
               /\ HasLit(s, m - 2, <<"}", ")">>)
               /\ InSeq(m - 2, bs)
               /\ InSeq(m - 1, bs)
               /\ b # -1
            THEN Matched("exception", j, m + 1,
                         <<Slice(s, j, m + 1), ids.batch, ids.call,
                           Slice(s, a, b),
                           Slice(s, b + Len(Chars_message), m - 2)>>)
            ELSE NoMatch
        Class(ids, a, bs, m) ==
            End(ids, a, bs, m,
                MaxOf({b \in Range(bs) :
                          /\ HasLit(s, b, Chars_message)
                          /\ b + Len(Chars_message) <= m - 2}))
        Body(ids, a, bs) == Class(ids, a, bs, bs[Len(bs)])
        Ids(ids) ==
            IF ids.ok /\ HasLit(s, ids.next, Chars_javaClassName)
            THEN Body(ids, ids.next + Len(Chars_javaClassName),
                      ObjBounds(s, ids.next + Len(Chars_javaClassName)))
            ELSE NoMatch
    IN  IF HasLit(s, j, Chars_exception)
        THEN Ids(IdsAt(s, j + Len(Chars_exception)))
        ELSE NoMatch

\* the alternatives of `pattern` in the order of `patterns`, the number of
\* groups of each (its named group included) and the index of its named group
PatternKeys ==
    <<"throw", "comment", "var", "setattr", "setitem", "call", "calldict",
      "exception">>

GroupCount(k) ==
    CASE k = "throw" -> 1 [] k = "comment" -> 2 [] k = "var" -> 3
      [] k = "setattr" -> 4 [] k = "setitem" -> 4 [] k = "call" -> 4
      [] k = "calldict" -> 4 [] k = "exception" -> 5

RECURSIVE GroupsBefore(_)
GroupsBefore(n) ==
    IF n = 0 THEN 0 ELSE GroupsBefore(n - 1) + GroupCount(PatternKeys[n])

KeyIndex(k) == CHOOSE n \in 1..Len(PatternKeys) : PatternKeys[n] = k

\* mo.lastindex: the named group of the alternative closes last
LastIndex(k) == GroupsBefore(KeyIndex(k) - 1) + 1

\* a group that took no part in the match, a field that is unset
None == <<"None">>

\* mo.groups(): every group of `pattern`, None for those of other alternatives
AllGroups(m) ==
    [k \in 1..GroupsBefore(Len(PatternKeys)) |->
        IF k >= LastIndex(m.key) /\ k < LastIndex(m.key) + Len(m.own)
        THEN m.own[k - LastIndex(m.key) + 1] ELSE None]

\* groups = mo.groups()[mo.lastindex - 1:]
GroupsOf(m) ==
    SubSeq(AllGroups(m), LastIndex(m.key), GroupsBefore(Len(PatternKeys)))

\* groups[k] of the Python code
G(m, k) == GroupsOf(m)[k + 1]

MatchKey(k, s, j) ==
    CASE k = "throw" -> MatchThrow(s, j)
      [] k = "comment" -> MatchComment(s, j)
      [] k = "var" -> MatchVar(s, j)
      [] k = "setattr" -> MatchSetattr(s, j)
      [] k = "setitem" -> MatchSetitem(s, j)
      [] k = "call" -> MatchCall(s, j)
      [] k = "calldict" -> MatchCalldict(s, j)
      [] k = "exception" -> MatchException(s, j)

\* pattern = '|'.join(...): at one offset the first alternative that matches,
\* tried from the n-th on
RECURSIVE FirstAlternative(_, _, _)
FirstAlternative(s, j, n) ==
    LET Prefer(m) ==
            IF m.key # "none" THEN m
            ELSE IF n = Len(PatternKeys) THEN NoMatch
            ELSE FirstAlternative(s, j, n + 1)
    IN  Prefer(MatchKey(PatternKeys[n], s, j))

MatchAt(s, j) == FirstAlternative(s, j, 1)

\* the next item, were the search to look one offset ahead first
RECURSIVE NextMatchAhead(_, _)
NextMatchAhead(s, from) ==
    LET Leftmost(m) == IF m.key # "none" THEN m ELSE NextMatchAhead(s, from + 1)
        Ahead(m) == IF m.key # "none" THEN m ELSE Leftmost(MatchAt(s, from))
    IN  IF from >= Len(s) THEN NoMatch ELSE Ahead(MatchAt(s, from + 1))

\* the next item of re.finditer(pattern, code) from offset `from`: the match
\* at the least offset that has one
RECURSIVE NextMatch(_, _)
NextMatch(s, from) ==
    LET Leftmost(m) == IF m.key # "none" THEN m ELSE NextMatch(s, from + 1)
    IN  IF from >= Len(s) THEN NoMatch ELSE Leftmost(MatchAt(s, from))

\* list(re.finditer(pattern, code)) from offset `from`
RECURSIVE MatchesFrom(_, _)
MatchesFrom(s, from) ==
    LET Via(m) == IF m.key = "none" THEN <<>> ELSE <<m>> \o MatchesFrom(s, m.end)
    IN  Via(NextMatch(s, from))

\* ------------------------------------------------------------ js_object_parse

(***************************************************************************)
(* Python values: <<"null">> (None), <<"bool", b>>, <<"num", n>>,          *)
(* <<"str", text>>, <<"list", elements>>, <<"dict", <<key, value>> pairs   *)
(* in insertion order>> (an OrderedDict) and <<"tuple", elements>>.        *)
(*                                                                         *)
(* ast.parse(s, mode='eval') is modelled on the literal texts a response   *)
(* is made of: names, decimal integers, quoted strings and their           *)
(* juxtaposition, lists, dictionaries and sets, unary minus, a top-level   *)
(* tuple, blanks between tokens.  Other Python syntax (decimals and        *)
(* exponents, operators, calls, subscripts, parentheses, string prefixes,  *)
(* escapes other than a quote or a backslash, comprehensions, keywords     *)
(* other than None, True, False) is outside the model and is not produced  *)
(* by any statement the model renders.                                     *)
(***************************************************************************)

PyNone == <<"null">>

PyBool(b) == <<"bool", b>>

PyNum(n) == <<"num", n>>

PyStr(t) == <<"str", t>>

PyList(es) == <<"list", es>>

PyDict(ps) == <<"dict", ps>>

PyTuple(es) == <<"tuple", es>>

\* what the parser yields: a node and the offset after it, or no parse
PFail == [ok |-> FALSE, node |-> <<"SyntaxError">>, pos |-> -1]

POk(n, p) == [ok |-> TRUE, node |-> n, pos |-> p]

\* a node of a type JsObjectParser has no visit_ method for (UnaryOp, Set,
\* Tuple, NameConstant): generic_visit gets it
Unhandled == <<"Unhandled">>

RECURSIVE SkipBlank(_, _)
SkipBlank(s, p) == IF At(s, p) \in {" ", "\t"} THEN SkipBlank(s, p + 1) ELSE p

AllIn(t, S) == \A k \in 1..Len(t) : t[k] \in S

\* a decimal integer t that ends at e, the end of the run of letters and
\* digits it starts: no letter may follow, no leading zero but in zero itself
PNumber(s, p) ==
    LET Text(t, e) ==
            IF AllIn(t, Digit) /\ (t[1] # "0" \/ AllIn(t, {"0"}))
            THEN POk(<<"Num", IntOf(t)>>, e)
            ELSE PFail
        To(e) == Text(Slice(s, p, e), e)
    IN  To(IdRun(s, p))

\* the rest of a string opened by quote q, p inside it; long is TRUE in a
\* triple-quoted string
RECURSIVE PStrBody(_, _, _, _, _)
PStrBody(s, p, q, long, acc) ==
    IF p >= Len(s) THEN PFail
    ELSE LET c == s[p + 1] IN
         IF long /\ HasLit(s, p, <<q, q, q>>) THEN POk(<<"Str", acc>>, p + 3)
         ELSE IF ~long /\ c = q THEN POk(<<"Str", acc>>, p + 1)
         ELSE IF ~long /\ c = "\n" THEN PFail
         ELSE IF c = "\\"
              THEN IF p + 1 >= Len(s) THEN PFail
                   ELSE LET d == s[p + 2] IN
                        IF d \in Quote \cup {"\\"}
                        THEN PStrBody(s, p + 2, q, long, Append(acc, d))
                        ELSE PStrBody(s, p + 2, q, long, acc \o <<c, d>>)
              ELSE PStrBody(s, p + 1, q, long, Append(acc, c))

PString(s, p) ==
    LET q == s[p + 1] IN
    IF HasLit(s, p, <<q, q, q>>)
    THEN PStrBody(s, p + 3, q, TRUE, <<>>)
    ELSE PStrBody(s, p + 1, q, FALSE, <<>>)

\* adjacent string literals are one string: r the first, n the offset of what
\* follows it, more the strings from there
RECURSIVE PStrings(_, _)
PStrings(s, p) ==
    LET Join(r, more) ==
            IF more.ok THEN POk(<<"Str", r.node[2] \o more.node[2]>>, more.pos)
            ELSE PFail
        Next(r, n) == IF At(s, n) \in Quote THEN Join(r, PStrings(s, n)) ELSE r
        First(r) == IF r.ok THEN Next(r, SkipBlank(s, r.pos)) ELSE PFail
    IN  First(PString(s, p))

RECURSIVE PExpr(_, _)
RECURSIVE PItems(_, _, _, _)
RECURSIVE PPairs(_, _, _)

\* a name that ends at e: None, True and False are constants of Python
PName(s, p, e) ==
    LET Text(t) ==
            IF t \in {<<"N","o","n","e">>, <<"T","r","u","e">>,
                      <<"F","a","l","s","e">>}
            THEN POk(Unhandled, e)
            ELSE POk(<<"Name", t>>, e)
    IN  IF At(s, e) \in Quote THEN PFail ELSE Text(Slice(s, p, e))

\* the node made of what r parsed
PWrap(kind, r) == IF r.ok THEN POk(<<kind, r.node>>, r.pos) ELSE PFail

\* a node no visit_ method handles, over what r parsed
PUnhandled(r) == IF r.ok THEN POk(Unhandled, r.pos) ELSE PFail

\* what follows the bracket at n
PList(s, n) ==
    IF At(s, n) = "]" THEN POk(<<"List", <<>>>>, n + 1)
    ELSE PWrap("List", PItems(s, n, "]", <<>>))

\* what follows the brace at n: a dictionary when a colon follows the first
\* expression k, a set otherwise
PBrace(s, n) ==
    LET First(k) ==
            IF ~k.ok THEN PFail
            ELSE IF At(s, SkipBlank(s, k.pos)) = ":"
                 THEN PWrap("Dict", PPairs(s, n, <<>>))
                 ELSE PUnhandled(PItems(s, n, "}", <<>>))
    IN  IF At(s, n) = "}" THEN POk(<<"Dict", <<>>>>, n + 1)
        ELSE First(PExpr(s, n))

\* an expression at p (no blank at p)
PExpr(s, p) ==
    IF At(s, p) \in Digit THEN PNumber(s, p)
    ELSE IF At(s, p) \in IdStart THEN PName(s, p, IdEnd(s, p))
    ELSE IF At(s, p) \in Quote THEN PStrings(s, p)
    ELSE IF At(s, p) = "-" THEN PUnhandled(PExpr(s, SkipBlank(s, p + 1)))
    ELSE IF At(s, p) = "[" THEN PList(s, SkipBlank(s, p + 1))
    ELSE IF At(s, p) = "{" THEN PBrace(s, SkipBlank(s, p + 1))
    ELSE PFail

\* expression (, expression)* [,] and the closing bracket, from p: r the
\* first expression, got the nodes so far, n and m the offsets of what follows
PItems(s, p, close, acc) ==
    LET More(got, m) ==
            IF At(s, m) = close THEN POk(got, m + 1)
            ELSE PItems(s, m, close, got)
        Sep(got, n) ==
            IF At(s, n) = close THEN POk(got, n + 1)
            ELSE IF At(s, n) = "," THEN More(got, SkipBlank(s, n + 1))
            ELSE PFail
        First(r) ==
            IF r.ok THEN Sep(Append(acc, r.node), SkipBlank(s, r.pos))
            ELSE PFail
    IN  First(PExpr(s, p))

\* key : value (, key : value)* [,] and the closing brace, from p: k and v
\* the first key and value, c the offset of the colon
PPairs(s, p, acc) ==
    LET More(got, m) ==
            IF At(s, m) = "}" THEN POk(got, m + 1) ELSE PPairs(s, m, got)
        Sep(got, n) ==
            IF At(s, n) = "}" THEN POk(got, n + 1)
            ELSE IF At(s, n) = "," THEN More(got, SkipBlank(s, n + 1))
            ELSE PFail
        Value(k, v) ==
            IF v.ok
            THEN Sep(Append(acc, <<k.node, v.node>>), SkipBlank(s, v.pos))
            ELSE PFail
        Colon(k, c) ==
            IF At(s, c) = ":" THEN Value(k, PExpr(s, SkipBlank(s, c + 1)))
            ELSE PFail
        Key(k) == IF k.ok THEN Colon(k, SkipBlank(s, k.pos)) ELSE PFail
    IN  Key(PExpr(s, p))

\* expression (, expression)* [,] up to the end of the text, from p
RECURSIVE PTupleRest(_, _)
PTupleRest(s, p) ==
    LET Sep(n) ==
            IF n >= Len(s) THEN TRUE
            ELSE IF At(s, n) = "," THEN PTupleRest(s, SkipBlank(s, n + 1))
            ELSE FALSE
        First(r) == IF r.ok THEN Sep(SkipBlank(s, r.pos)) ELSE FALSE
    IN  IF p >= Len(s) THEN TRUE ELSE First(PExpr(s, p))

\* ast.parse(s, mode='eval').body: a blank in front is an IndentationError;
\* r is the first expression and n the offset of what follows it
AstParse(s) ==
    LET End(r, n) ==
            IF n >= Len(s) THEN r
            ELSE IF At(s, n) = "," /\ PTupleRest(s, SkipBlank(s, n + 1))
                 THEN POk(Unhandled, Len(s))
                 ELSE PFail
        Top(r) == IF r.ok THEN End(r, SkipBlank(s, r.pos)) ELSE PFail
    IN  IF s = <<>> \/ s[1] \in {" ", "\t"} THEN PFail ELSE Top(PExpr(s, 0))

\* what evaluating yields: a value, or the exception raised
Val(v) == [exc |-> "none", msg |-> "", val |-> v]

Raise(e, m, a) == [exc |-> e, msg |-> m, val |-> a]

\* Python's == on the values a key can be: True == 1 and False == 0
AsInt(v) == IF v[1] = "bool" THEN (IF v[2] THEN 1 ELSE 0) ELSE v[2]

IsInt(v) == v[1] \in {"num", "bool"}

PyKeyEq(a, b) ==
    IF IsInt(a) /\ IsInt(b) THEN AsInt(a) = AsInt(b)
    ELSE a[1] = b[1] /\ a = b

Hashable(v) == v[1] \notin {"list", "dict"}

HasKey(ps, k) == \E n \in 1..Len(ps) : PyKeyEq(ps[n][1], k)

\* d[k] = v on the pairs of an OrderedDict: a key already there keeps its place
DictSet(ps, k, v) ==
    IF HasKey(ps, k)
    THEN [n \in 1..Len(ps) |->
             IF PyKeyEq(ps[n][1], k) THEN <<ps[n][1], v>> ELSE ps[n]]
    ELSE Append(ps, <<k, v>>)

\* collections.OrderedDict(pairs)
RECURSIVE DictOf(_, _)
DictOf(ps, acc) ==
    IF ps = <<>> THEN Val(PyDict(acc))
    ELSE IF ~Hashable(Head(ps)[1]) THEN Raise("TypeError", "unhashable type", Head(ps)[1])
    ELSE DictOf(Tail(ps), DictSet(acc, Head(ps)[1], Head(ps)[2]))

\* visit_Name: a KeyError carries, as msg, the mapping that lacks the key
VisitName(id) ==
    IF id = <<"n","u","l","l">> THEN Val(PyNone)
    ELSE IF id = <<"f","a","l","s","e">> THEN Val(PyBool(FALSE))
    ELSE IF id = <<"t","r","u","e">> THEN Val(PyBool(TRUE))
    ELSE Raise("KeyError", "js_constants", id)

RECURSIVE Visit(_)
RECURSIVE VisitAll(_, _)

\* [self.visit(v) for v in nodes]: the first exception ends it
VisitAll(nodes, acc) ==
    LET Then(r) ==
            IF r.exc # "none" THEN r
            ELSE VisitAll(Tail(nodes), Append(acc, r.val))
    IN  IF nodes = <<>> THEN Val(acc) ELSE Then(Visit(Head(nodes)))

\* JsObjectParser.visit; r is what visiting the children gave
Visit(node) ==
    LET List(r) == IF r.exc # "none" THEN r ELSE Val(PyList(r.val))
        Dict(r, n) ==
            IF r.exc # "none" THEN r
            ELSE DictOf([k \in 1..n |-> <<r.val[2 * k - 1], r.val[2 * k]>>],
                        <<>>)
    IN  CASE node[1] = "Name" -> VisitName(node[2])
          [] node[1] = "Num" -> Val(PyNum(node[2]))
          [] node[1] = "Str" -> Val(PyStr(node[2]))
          [] node[1] = "List" -> List(VisitAll(node[2], <<>>))
          [] node[1] = "Dict" ->
                Dict(VisitAll(Concat(node[2]), <<>>), Len(node[2]))
          [] node[1] = "Unhandled" ->
                Raise("ValueError", "Unhandled node type", node)

js_object_parse(s) ==
    LET Evaluate(r) ==
            IF r.ok THEN Visit(r.node) ELSE Raise("SyntaxError", "", s)
    IN  Evaluate(AstParse(s))

\* ------------------------------------------------------------ responses

(***************************************************************************)
(* The responses decoded: each is the text of a few chunks, a chunk being  *)
(* a list of statements written the way the server writes them, or a raw   *)
(* fragment.  A statement is <<"throw", value>>, <<"comment", text>>,      *)
(* <<"var", name, value>>, <<"setattr", name, field, value>>,              *)
(* <<"setitem", name, index, value>>, <<"call", batchId, callId, names>>,  *)
(* <<"calldict", batchId, callId, <<key, name>> pairs>>,                   *)
(* <<"exception", batchId, callId, className, message>> or                 *)
(* <<"raw", text>>.  Besides the values of js_object_parse a statement can  *)
(* hold <<"name", id>>, the variable the server names where one object     *)
(* holds another.                                                          *)
(***************************************************************************)

JsName(id) == <<"name", id>>

RECURSIVE Digits(_)
Digits(n) ==
    LET d == <<"0","1","2","3","4","5","6","7","8","9">>[(n % 10) + 1] IN
    IF n < 10 THEN <<d>> ELSE Append(Digits(n \div 10), d)

RECURSIVE Join(_, _)
Join(ts, sep) ==
    IF ts = <<>> THEN <<>>
    ELSE IF Len(ts) = 1 THEN ts[1]
    ELSE ts[1] \o sep \o Join(Tail(ts), sep)

RECURSIVE Escaped(_)
Escaped(t) ==
    IF t = <<>> THEN <<>>
    ELSE (IF Head(t) \in {"\"", "\\"} THEN <<"\\", Head(t)>> ELSE <<Head(t)>>)
         \o Escaped(Tail(t))

\* the text the server writes for a value
RECURSIVE Literal(_)
Literal(v) ==
    CASE v[1] = "null" -> <<"n","u","l","l">>
      [] v[1] = "bool" ->
            IF v[2] THEN <<"t","r","u","e">> ELSE <<"f","a","l","s","e">>
      [] v[1] = "num" ->
            IF v[2] < 0 THEN <<"-">> \o Digits(-v[2]) ELSE Digits(v[2])
      [] v[1] = "str" -> <<"\"">> \o Escaped(v[2]) \o <<"\"">>
      [] v[1] = "name" -> v[2]
      [] v[1] = "list" ->
            <<"[">> \o Join([k \in 1..Len(v[2]) |-> Literal(v[2][k])], <<",">>)
                    \o <<"]">>
      [] v[1] = "dict" ->
            <<"{">> \o Join([k \in 1..Len(v[2]) |->
                                Literal(v[2][k][1]) \o <<":">>
                                    \o Literal(v[2][k][2])], <<",">>)
                    \o <<"}">>

Ids(st) == <<"'">> \o Digits(st[2]) \o <<"'", ",", "'">> \o Digits(st[3])
               \o <<"'", ",">>

\* the text of one statement
Render(st) ==
    CASE st[1] = "throw" -> Chars_throw \o Literal(st[2]) \o <<";", "\n">>
      [] st[1] = "comment" -> <<"/", "/">> \o st[2] \o <<"\n">>
      [] st[1] = "var" ->
            Chars_var \o st[2] \o <<"=">> \o Literal(st[3]) \o <<";">>
      [] st[1] = "setattr" ->
            st[2] \o <<".">> \o st[3] \o <<"=">> \o Literal(st[4]) \o <<";">>
      [] st[1] = "setitem" ->
            st[2] \o <<"[">> \o Literal(st[3]) \o <<"]", "=">>
                  \o Literal(st[4]) \o <<";">>
      [] st[1] = "call" ->
            Chars_callback \o Ids(st) \o <<"[">> \o Join(st[4], <<",">>)
                \o <<"]", ")", ";">>
      [] st[1] = "calldict" ->
            Chars_callback \o Ids(st) \o <<"{">>
                \o Join([k \in 1..Len(st[4]) |->
                            Literal(st[4][k][1]) \o <<":">> \o st[4][k][2]],
                        <<",">>)
                \o <<"}", ")", ";">>
      [] st[1] = "exception" ->
            Chars_exception \o Ids(st) \o Chars_javaClassName
                \o Literal(st[4]) \o Chars_message \o Literal(st[5])
                \o <<"}", ")", ";">>
      [] st[1] = "raw" -> st[2]

\* the statements of a list of chunks, and their text
Statements(chunks) == Concat(chunks)

RenderAll(sts) == Concat([k \in 1..Len(sts) |-> Render(sts[k])])

Name_s == <<"s">>

Name_t == <<"t">>

Field_a == <<"a">>

\* what the server puts before its reply: the throw and a framing line
Preamble == << <<"throw", PyStr(<<"x">>)>>, <<"comment", <<"#">> >> >>

\* the chunks a response is made of
Chunks ==
    << << <<"var", Name_s, PyDict(<<>>)>>, <<"var", Name_t, PyNum(1)>> >>,
       << <<"var", Name_s, PyList(<<>>)>>, <<"var", Name_t, PyNum(1)>> >>,
       << <<"var", Name_s, PyList(<<PyNum(7)>>)>> >>,
       << <<"setattr", Name_s, Field_a, PyNum(1)>> >>,
       << <<"setattr", Name_s, Field_a, PyNum(-1)>> >>,
       << <<"setattr", Name_s, Field_a, JsName(Name_t)>> >>,
       << <<"setitem", Name_s, PyNum(2), PyNum(5)>> >>,
       << <<"setitem", Name_s, PyNum(0), PyNum(6)>> >>,
       << <<"call", 16, 1, <<Name_s, Name_s, Name_t>> >> >>,
       << <<"call", 16, 2, <<>> >> >>,
       << <<"calldict", 17, 1, << <<PyStr(<<"k">>), Name_s>> >> >> >>,
       << <<"calldict", 17, 2, << <<PyStr(<<"a", ",", "b">>), Name_s>> >> >> >>,
       << <<"exception", 42, 5, PyStr(<<"E">>), PyStr(<<"m">>)>> >>,
       << <<"exception", 43, 6, PyStr(<<"F">>), PyStr(<<"n">>)>> >>,
       Preamble,
       << <<"raw", <<"x">> >> >> >>

\* the most chunks in a response
MaxChunks == 3

Inputs ==
    UNION {[1..n -> 1..Len(Chunks)] : n \in 0..MaxChunks}

\* ------------------------------------------------------------ parse_js

\* how the call stands: running, returned val, or raised exc(msg, val)
Running == [kind |-> "running", exc |-> "", msg |-> "", val |-> <<>>]

Returned(v) == [kind |-> "returned", exc |-> "", msg |-> "", val |-> v]

Raised(r) == [kind |-> "raised", exc |-> r.exc, msg |-> r.msg, val |-> r.val]

\* a reference to the object at an address of the heap
Ref(a) == <<"ref", a>>

\* a value with the objects it refers to in place of the references
RECURSIVE Deref(_, _)
Deref(v, h) ==
    CASE v[1] = "ref" -> h[v[2]]
      [] v[1] \in {"list", "tuple"} ->
            <<v[1], [k \in 1..Len(v[2]) |-> Deref(v[2][k], h)]>>
      [] OTHER -> v

\* locals[name]
Lookup(env, name) ==
    IF name \in DOMAIN env THEN Val(Ref(env[name]))
    ELSE Raise("KeyError", "locals", name)

\* locals[name] = the object at address a
Bind(env, name, a) ==
    [n \in (DOMAIN env) \cup {name} |-> IF n = name THEN a ELSE env[n]]

\* the position of index n in a list of length len
ListIndex(n, len) == IF n >= 0 THEN n + 1 ELSE len + n + 1

\* target[key] = value, the key a str (line 189) or any value (line 199):
\* the object afterwards, or the exception
SetItem(target, key, value) ==
    CASE target[1] = "dict" ->
            IF Hashable(key) THEN Val(PyDict(DictSet(target[2], key, value)))
            ELSE Raise("TypeError", "unhashable key", key)
      [] target[1] = "list" ->
            IF ~IsInt(key)
            THEN Raise("TypeError", "list indices must be integers", key)
            ELSE IF AsInt(key) >= Len(target[2]) \/ AsInt(key) < -Len(target[2])
                 THEN Raise("IndexError", "list assignment index out of range",
                            key)
                 ELSE Val(PyList([target[2] EXCEPT
                                     ![ListIndex(AsInt(key), Len(target[2]))] =
                                         value]))
      [] OTHER ->
            Raise("TypeError", "object does not support item assignment",
                  target)

\* lines 193-199, were the list not extended up to the index
SetIndexUnpadded(target, key, value) ==
    IF target[1] = "list" /\ ~IsInt(key)
    THEN Raise("TypeError", "'<=' not supported", key)
    ELSE IF target[1] = "list" /\ Len(target[2]) <= AsInt(key)
         THEN Val(PyList(Append(target[2], value)))
         ELSE SetItem(target, key, value)

\* lines 193-199: the object afterwards, or the exception
SetIndex(target, key, value) ==
    IF target[1] = "list" /\ ~IsInt(key)
    THEN Raise("TypeError", "'<=' not supported", key)
    ELSE IF target[1] = "list" /\ Len(target[2]) <= AsInt(key)
         THEN Val(PyList(target[2]
                         \o [k \in 1..(AsInt(key) - Len(target[2])) |-> PyNone]
                         \o <<value>>))
         ELSE SetItem(target, key, value)

\* the list of line 204, were it built back to front
RECURSIVE LookupAllReversed(_, _, _)
LookupAllReversed(env, names, acc) ==
    LET Then(r) ==
            IF r.exc # "none" THEN r
            ELSE LookupAllReversed(env, Tail(names), <<r.val>> \o acc)
    IN  IF names = <<>> THEN Val(acc) ELSE Then(Lookup(env, Head(names)))

\* [locals[n] for n in names]
RECURSIVE LookupAll(_, _, _)
LookupAll(env, names, acc) ==
    LET Then(r) ==
            IF r.exc # "none" THEN r
            ELSE LookupAll(env, Tail(names), Append(acc, r.val))
    IN  IF names = <<>> THEN Val(acc) ELSE Then(Lookup(env, Head(names)))

\* lines 213-215, one kv_string after the other: parts is kv_string.split(':')
\* and k the key parsed, v the object looked up
RECURSIVE KeyedData(_, _, _)
KeyedData(env, kvs, acc) ==
    LET Value(k, v) ==
            IF v.exc # "none" THEN v
            ELSE KeyedData(env, Tail(kvs),
                           Append(acc, PyTuple(<<k.val, v.val>>)))
        Key(parts, k) ==
            IF k.exc # "none" THEN k ELSE Value(k, Lookup(env, parts[2]))
        Unpack(parts) ==
            IF Len(parts) # 2 THEN Raise("ValueError", "values to unpack", parts)
            ELSE Key(parts, js_object_parse(parts[1]))
    IN  IF kvs = <<>> THEN Val(acc) ELSE Unpack(Split(Head(kvs), ":"))

\* the dictionary of line 231, were an earlier entry to keep its call id
RECURSIVE MappingFirst(_, _)
MappingFirst(rs, h) ==
    LET Put(first, later) ==
            [c \in (DOMAIN later) \cup {first[2]} |->
                IF c = first[2] THEN Deref(first[3], h) ELSE later[c]]
    IN  IF rs = <<>> THEN <<>> ELSE Put(rs[1], MappingFirst(Tail(rs), h))

\* {call_id: data for batch_id, call_id, data in results}
RECURSIVE Mapping(_, _)
Mapping(rs, h) ==
    LET Put(before, last) ==
            [c \in (DOMAIN before) \cup {last[2]} |->
                IF c = last[2] THEN Deref(last[3], h) ELSE before[c]]
    IN  IF rs = <<>> THEN <<>>
        ELSE Put(Mapping(SubSeq(rs, 1, Len(rs) - 1), h), rs[Len(rs)])

\* no other call of parse_js
NoFrame == [code |-> <<>>, items |-> <<>>, i |-> -1, locals |-> <<>>,
            results |-> <<>>, exceptions |-> <<>>, outcome |-> Running,
            trace |-> <<>>]

\* no decode has ended yet
NoEarlier == [items |-> <<>>, outcome |-> Running]

\* no call of dwr_get_attempts_info
NotFetching ==
    /\ session = [_script_session_id |-> <<>>]
    /\ attempts = <<>>
    /\ batch_size = 0
    /\ batch = [i |-> 0, at |-> "idle"]
    /\ info = <<>>
    /\ status = Running
    /\ wire = <<>>

\* an attribute that is None is <<>>, one that holds v is <<v>>
Unset == <<>>

Some(v) == <<v>>

\* a Gradebook whose file was not found, before its first refresh
NoGradebook ==
    /\ students = Unset
    /\ assignment_ids = Unset
    /\ fetch_time = 0
    /\ prev = Unset
    /\ attempt_keys = <<>>
    /\ refresh = "none"

Init ==
    /\ items \in {Concat([k \in 1..Len(f) |-> Chunks[f[k]]]) : f \in Inputs}
    /\ code = RenderAll(items)
    /\ i = 0
    /\ locals = <<>>
    /\ heap = <<>>
    /\ results = <<>>
    /\ exceptions = <<>>
    /\ outcome = Running
    /\ trace = <<>>
    /\ other = NoFrame
    /\ earlier = NoEarlier
    /\ NotFetching
    /\ NoGradebook

\* line 170, were the slice to start one character late
SkippedLate(m) == Slice(code, i + 1, m.start)

\* code[i:j] of line 170 for the match m
Skipped(m) == Slice(code, i, m.start)

\* the loop body reaching its branch for m, were the loop to go on after a
\* statement has raised
ReachesRegardless(m, k) ==
    /\ m.key = k
    /\ Strip(Slice(code, i, m.start)) = <<>>

\* the loop body reaches its branch for m
Reaches(m, k) ==
    /\ outcome.kind = "running"
    /\ m.key = k
    /\ Strip(Skipped(m)) = <<>>

\* what every branch does besides its own work: line 171 and the history
Advance(m) ==
    /\ i' = m.end
    /\ trace' = Append(trace, [key |-> m.key, start |-> m.start,
                               end |-> m.end])
    /\ UNCHANGED <<code, items, around>>

\* a branch that raises r
Fails(r) ==
    /\ outcome' = Raised(r)
    /\ UNCHANGED <<locals, heap, results, exceptions>>

\* lines 172-173, were text between two matches dropped without a word
SkipSilently(m) ==
    /\ outcome.kind = "running"
    /\ m.key # "none"
    /\ Strip(Skipped(m)) # <<>>
    /\ i' = m.start
    /\ UNCHANGED <<code, items, locals, heap, results, exceptions, outcome,
                   trace, around>>

\* lines 172-173
RaiseSkipped(m) ==
    /\ outcome.kind = "running"
    /\ m.key # "none"
    /\ Strip(Skipped(m)) # <<>>
    /\ i' = m.end
    /\ outcome' = Raised(Raise("ValueError", "Did not parse",
                               Strip(Skipped(m))))
    /\ UNCHANGED <<code, items, locals, heap, results, exceptions, trace,
                   around>>

\* lines 177-178, were a throw to start the environment afresh
ExecThrowAfresh(m) ==
    /\ Reaches(m, "throw")
    /\ Advance(m)
    /\ locals' = <<>>
    /\ UNCHANGED <<heap, results, exceptions, outcome>>

\* lines 177-178
ExecThrow(m) ==
    /\ Reaches(m, "throw")
    /\ Advance(m)
    /\ UNCHANGED <<locals, heap, results, exceptions, outcome>>

\* lines 179-180
ExecComment(m) ==
    /\ Reaches(m, "comment")
    /\ Advance(m)
    /\ UNCHANGED <<locals, heap, results, exceptions, outcome>>

\* lines 181-184
ExecVar(m) ==
    LET Assign(name, value) ==
            IF value.exc # "none" THEN Fails(value)
            ELSE /\ heap' = Append(heap, value.val)
                 /\ locals' = Bind(locals, name, Len(heap) + 1)
                 /\ UNCHANGED <<results, exceptions, outcome>>
    IN  /\ Reaches(m, "var")
        /\ Advance(m)
        /\ Assign(G(m, 1), js_object_parse(G(m, 2)))

\* the object locals[name] becomes `after`, or the exception is raised
Store(name, after) ==
    IF after.exc # "none" THEN Fails(after)
    ELSE /\ heap' = [heap EXCEPT ![locals[name]] = after.val]
         /\ UNCHANGED <<locals, results, exceptions, outcome>>

\* lines 185-189
ExecSetattr(m) ==
    LET Assign(name, key, value, target) ==
            IF value.exc # "none" THEN Fails(value)
            ELSE IF target.exc # "none" THEN Fails(target)
            ELSE Store(name, SetItem(heap[locals[name]], PyStr(key), value.val))
    IN  /\ Reaches(m, "setattr")
        /\ Advance(m)
        /\ Assign(G(m, 1), G(m, 2), js_object_parse(G(m, 3)),
                  Lookup(locals, G(m, 1)))

\* lines 190-199
ExecSetitem(m) ==
    LET Assign(name, key, value, target) ==
            IF key.exc # "none" THEN Fails(key)
            ELSE IF value.exc # "none" THEN Fails(value)
            ELSE IF target.exc # "none" THEN Fails(target)
            ELSE Store(name, SetIndex(heap[locals[name]], key.val, value.val))
    IN  /\ Reaches(m, "setitem")
        /\ Advance(m)
        /\ Assign(G(m, 1), js_object_parse(G(m, 2)), js_object_parse(G(m, 3)),
                  Lookup(locals, G(m, 1)))

\* lines 207 and 216, were a call to use up the variables it names
RecordAndForget(batch_id, call_id, data) ==
    IF data.exc # "none" THEN Fails(data)
    ELSE /\ results' = Append(results, <<batch_id, call_id, PyList(data.val)>>)
         /\ locals' = <<>>
         /\ UNCHANGED <<heap, exceptions, outcome>>

\* lines 207 and 216
Record(batch_id, call_id, data) ==
    IF data.exc # "none" THEN Fails(data)
    ELSE /\ results' = Append(results, <<batch_id, call_id, PyList(data.val)>>)
         /\ UNCHANGED <<locals, heap, exceptions, outcome>>

\* lines 200-207
ExecCall(m) ==
    LET Data(names) ==
            IF names # <<>> THEN LookupAll(locals, Split(names, ","), <<>>)
            ELSE Val(<<>>)
    IN  /\ Reaches(m, "call")
        /\ Advance(m)
        /\ Record(IntOf(G(m, 1)), IntOf(G(m, 2)), Data(G(m, 3)))

\* lines 208-216
ExecCalldict(m) ==
    LET Data(kvs) ==
            IF kvs # <<>> THEN KeyedData(locals, Split(kvs, ","), <<>>)
            ELSE Val(<<>>)
    IN  /\ Reaches(m, "calldict")
        /\ Advance(m)
        /\ Record(IntOf(G(m, 1)), IntOf(G(m, 2)), Data(G(m, 3)))

\* lines 217-222, were the first exception to end the decode at once
ExecExceptionAtOnce(m) ==
    LET Add(batch_id, call_id, class_name, message) ==
            IF class_name.exc # "none" THEN Fails(class_name)
            ELSE IF message.exc # "none" THEN Fails(message)
            ELSE /\ exceptions' =
                        Append(exceptions,
                               PyTuple(<<PyNum(batch_id), PyNum(call_id),
                                         class_name.val, message.val>>))
                 /\ outcome' = Raised(Raise("ValueError",
                                            "DWR returned exceptions",
                                            exceptions'))
                 /\ UNCHANGED <<locals, heap, results>>
    IN  /\ Reaches(m, "exception")
        /\ Advance(m)
        /\ Add(IntOf(G(m, 1)), IntOf(G(m, 2)), js_object_parse(G(m, 3)),
               js_object_parse(G(m, 4)))

\* lines 217-222
ExecException(m) ==
    LET Add(batch_id, call_id, class_name, message) ==
            IF class_name.exc # "none" THEN Fails(class_name)
            ELSE IF message.exc # "none" THEN Fails(message)
            ELSE /\ exceptions' =
                        Append(exceptions,
                               PyTuple(<<PyNum(batch_id), PyNum(call_id),
                                         class_name.val, message.val>>))
                 /\ UNCHANGED <<locals, heap, results, outcome>>
    IN  /\ Reaches(m, "exception")
        /\ Advance(m)
        /\ Add(IntOf(G(m, 1)), IntOf(G(m, 2)), js_object_parse(G(m, 3)),
               js_object_parse(G(m, 4)))

\* lines 224-231, were the error to carry the first exception alone
ConcludeFirst(skipped) ==
    IF skipped # <<>>
    THEN Raised(Raise("ValueError", "Did not parse", skipped))
    ELSE IF exceptions # <<>>
         THEN Raised(Raise("ValueError", "DWR returned exceptions",
                           <<exceptions[1]>>))
         ELSE Returned(Mapping(results, heap))

\* lines 224-231, skipped being code[i:].strip()
Conclude(skipped) ==
    IF skipped # <<>>
    THEN Raised(Raise("ValueError", "Did not parse", skipped))
    ELSE IF exceptions # <<>>
         THEN Raised(Raise("ValueError", "DWR returned exceptions", exceptions))
         ELSE Returned(Mapping(results, heap))

\* what follows the loop, once finditer is exhausted
Finish(m) ==
    /\ outcome.kind = "running"
    /\ m.key = "none"
    /\ outcome' = Conclude(Strip(Slice(code, i, Len(code))))
    /\ UNCHANGED <<code, items, i, locals, heap, results, exceptions, trace,
                   around>>

\* the item the loop is at: the next match of finditer, which resumes where
\* the last match ended
mo == NextMatch(code, i)

\* one iteration of `for mo in re.finditer(pattern, code)`, or what follows
\* the loop
Next ==
    \/ RaiseSkipped(mo)
    \/ ExecThrow(mo)
    \/ ExecComment(mo)
    \/ ExecVar(mo)
    \/ ExecSetattr(mo)
    \/ ExecSetitem(mo)
    \/ ExecCall(mo)
    \/ ExecCalldict(mo)
    \/ ExecException(mo)
    \/ Finish(mo)

Spec == Init /\ [][Next]_vars

\* ------------------------------------------------- one decode after another

(***************************************************************************)
(* parse_js keeps its state in local variables, so every call has a frame  *)
(* of its own; the objects the frames refer to live in the one heap of the *)
(* process.  Here a process decodes a response, and then decodes again:    *)
(* the same response, or that response behind the preamble, while another  *)
(* thread decodes a response of its own.  The threads are switched between *)
(* iterations of the loop.                                                 *)
(***************************************************************************)

\* lines 164-167, were locals to outlive the call
FreshKeeping(sts) ==
    [code |-> RenderAll(sts), items |-> sts, i |-> 0, locals |-> locals,
     results |-> <<>>, exceptions |-> <<>>, outcome |-> Running,
     trace |-> <<>>]

\* lines 164-167: the frame of a call on the response rendered from sts
Fresh(sts) ==
    [code |-> RenderAll(sts), items |-> sts, i |-> 0, locals |-> <<>>,
     results |-> <<>>, exceptions |-> <<>>, outcome |-> Running,
     trace |-> <<>>]

\* the frame of the running call
Frame ==
    [code |-> code, items |-> items, i |-> i, locals |-> locals,
     results |-> results, exceptions |-> exceptions, outcome |-> outcome,
     trace |-> trace]

\* the thread of frame f runs, were locals one environment for all calls
ResumeSharing(f) ==
    /\ code' = f.code
    /\ items' = f.items
    /\ i' = f.i
    /\ locals' = locals
    /\ results' = f.results
    /\ exceptions' = f.exceptions
    /\ outcome' = f.outcome
    /\ trace' = f.trace

\* the thread of frame f runs
Resume(f) ==
    /\ code' = f.code
    /\ items' = f.items
    /\ i' = f.i
    /\ locals' = f.locals
    /\ results' = f.results
    /\ exceptions' = f.exceptions
    /\ outcome' = f.outcome
    /\ trace' = f.trace

\* the most chunks in the response decoded first
MaxFirst == 2

InitAgain ==
    /\ items \in {Concat([k \in 1..Len(f) |-> Chunks[f[k]]]) :
                    f \in UNION {[1..n -> 1..Len(Chunks)] : n \in 0..MaxFirst}}
    /\ code = RenderAll(items)
    /\ i = 0
    /\ locals = <<>>
    /\ heap = <<>>
    /\ results = <<>>
    /\ exceptions = <<>>
    /\ outcome = Running
    /\ trace = <<>>
    /\ other = NoFrame
    /\ earlier = NoEarlier
    /\ NotFetching
    /\ NoGradebook

\* the first decode has ended: parse_js is called again, on the same response
\* or on it behind the preamble, and on a response of one chunk in another
\* thread
Again ==
    /\ outcome.kind # "running"
    /\ earlier = NoEarlier
    /\ earlier' = [items |-> items, outcome |-> outcome]
    /\ \E sts \in {items, Preamble \o items} : Resume(Fresh(sts))
    /\ \E c \in 1..Len(Chunks) : other' = Fresh(Chunks[c])
    /\ UNCHANGED <<heap, fetching, gradebook>>

\* the interpreter switches to the other thread
Switch ==
    /\ other # NoFrame
    /\ other.outcome.kind = "running"
    /\ Resume(other)
    /\ other' = Frame
    /\ UNCHANGED <<heap, earlier, fetching, gradebook>>

NextAgain ==
    \/ RaiseSkipped(mo)
    \/ ExecThrow(mo)
    \/ ExecComment(mo)
    \/ ExecVar(mo)
    \/ ExecSetattr(mo)
    \/ ExecSetitem(mo)
    \/ ExecCall(mo)
    \/ ExecCalldict(mo)
    \/ ExecException(mo)
    \/ Finish(mo)
    \/ Again
    \/ Switch

SpecAgain == InitAgain /\ [][NextAgain]_vars

\* ------------------------------------------------ dwr_get_attempts_info

(***************************************************************************)
(* dwr_get_attempts_info posts the attempts to the server in batches; each *)
(* batch is one dwr_get_attempts_info_single_request, which asks the       *)
(* session for its script session id (fetched from engine.js when the      *)
(* session has none), posts the calls, hands the text of the response to   *)
(* parse_js and picks the result of each call by its id.  The server is    *)
(* free in what it answers; `wire` keeps what went over the network.       *)
(***************************************************************************)

\* no call of parse_js under way
Idle == [kind |-> "idle", exc |-> "", msg |-> "", val |-> <<>>]

\* line 86: the id used when engine.js declares none
DefaultId ==
    <<"8","A","2","2","A","E","E","4","C","7","B","3","F","9","C","A",
      "3","A","0","9","4","7","3","5","1","7","5","A","6","B","1","4">>

\* what engine.js may hold: <<"id", text>>, the assignment of an id that
\* line 81 finds, or <<"other">>, text the search finds nothing in
Assets == { <<"id", <<"A", "7">> >>, <<"other">> }

\* lines 81-87: the id found, or the default, and 42 after it
ScriptSessionId(asset) ==
    (IF asset[1] = "id" THEN asset[2] ELSE DefaultId) \o <<"4", "2">>

\* lines 245-253: the calls of a request, <<id, attempt>> each
CallsOf(some) == [k \in 1..Len(some) |-> <<k - 1, some[k]>>]

\* what the server holds for an attempt, a pair (student_id, handin_id)
Served(attempt) == 10 * attempt[1] + attempt[2]

\* what the server may do with a request
Styles == {"list", "keyed", "short", "exception", "garbage"}

\* the statements the server answers one call with
AnswerTo(style, call) ==
    IF style = "keyed"
    THEN << <<"var", Name_s, PyDict(<<>>)>>,
            <<"setattr", Name_s, Field_a, PyNum(Served(call[2]))>>,
            <<"calldict", 42, call[1], << <<PyStr(<<"k">>), Name_s>> >> >> >>
    ELSE << <<"var", Name_s, PyList(<<>>)>>,
            <<"setitem", Name_s, PyNum(0), PyNum(Served(call[2]))>>,
            <<"call", 42, call[1], <<Name_s>> >> >>

\* the response of the server to the calls of a request
Response(style, calls) ==
    LET All(cs) == Concat([k \in 1..Len(cs) |-> AnswerTo(style, cs[k])])
    IN  CASE style \in {"list", "keyed"} -> Preamble \o All(calls)
          [] style = "short" ->
                Preamble \o All(SubSeq(calls, 1, Len(calls) - 1))
          [] style = "exception" ->
                Preamble \o << <<"exception", 42, 0, PyStr(<<"E">>),
                                 PyStr(<<"m">>)>> >>
          [] style = "garbage" ->
                << <<"raw", <<"x">> >> >> \o Preamble \o All(calls)

\* the most attempts, the greatest batch size, the most calls of
\* dwr_get_attempts_info on one session
MaxAttempts == 3

MaxBatch == 2

MaxCalls == 2

InitFetch ==
    /\ code = <<>>
    /\ items = <<>>
    /\ i = 0
    /\ locals = <<>>
    /\ heap = <<>>
    /\ results = <<>>
    /\ exceptions = <<>>
    /\ outcome = Idle
    /\ trace = <<>>
    /\ other = NoFrame
    /\ earlier = NoEarlier
    /\ session = [_script_session_id |-> <<>>]
    /\ attempts \in {[k \in 1..n |-> <<k, 1>>] : n \in 0..MaxAttempts}
    /\ batch_size \in 1..MaxBatch
    /\ batch = [i |-> 0, at |-> "loop", call |-> 1]
    /\ info = <<>>
    /\ status = Running
    /\ wire = <<>>
    /\ NoGradebook

\* the decoder stands still
NoDecode ==
    UNCHANGED <<code, items, i, locals, heap, results, exceptions, outcome,
                trace, other, earlier, gradebook>>

\* an iteration of the loop of line 267 is to begin
AtLoop ==
    /\ status.kind = "running"
    /\ batch.at = "loop"

\* lines 267 and 273: the loop is through
ReturnInfo ==
    /\ AtLoop
    /\ batch.i >= Len(attempts)
    /\ status' = Returned(info)
    /\ batch' = [batch EXCEPT !.at = "idle"]
    /\ NoDecode
    /\ UNCHANGED <<session, attempts, batch_size, info, wire>>

\* lines 74-88, were the id never kept on the session
FetchScriptAnew ==
    /\ AtLoop
    /\ batch.i < Len(attempts)
    /\ session._script_session_id = <<>>
    /\ wire' = Append(wire, [op |-> "get", call |-> batch.call,
                             returned |-> TRUE])
    /\ batch' = [batch EXCEPT !.at = "post"]
    /\ NoDecode
    /\ UNCHANGED <<session, attempts, batch_size, info, status>>

\* lines 74-88: the session has no id yet, engine.js is fetched
FetchScript ==
    /\ AtLoop
    /\ batch.i < Len(attempts)
    /\ session._script_session_id = <<>>
    /\ wire' = Append(wire, [op |-> "get", call |-> batch.call,
                             returned |-> TRUE])
    /\ \E asset \in Assets :
          session' = [session EXCEPT
                         !._script_session_id = ScriptSessionId(asset)]
    /\ batch' = [batch EXCEPT !.at = "post"]
    /\ NoDecode
    /\ UNCHANGED <<attempts, batch_size, info, status>>

\* line 80: the fetch raises
FetchRaises ==
    /\ AtLoop
    /\ batch.i < Len(attempts)
    /\ session._script_session_id = <<>>
    /\ wire' = Append(wire, [op |-> "get", call |-> batch.call,
                             returned |-> FALSE])
    /\ status' = Raised(Raise("ConnectionError", "get", <<>>))
    /\ batch' = [batch EXCEPT !.at = "idle"]
    /\ NoDecode
    /\ UNCHANGED <<session, attempts, batch_size, info>>

\* the request of the iteration is to be posted: the session has its id
\* (lines 74-77), or has just fetched it
AtPost ==
    /\ status.kind = "running"
    /\ batch.i < Len(attempts)
    /\ \/ batch.at = "post"
       \/ batch.at = "loop" /\ session._script_session_id # <<>>

\* attempts[i:j] of line 271
Batch == Slice(attempts, batch.i,
               IF Len(attempts) < batch.i + batch_size
               THEN Len(attempts) ELSE batch.i + batch_size)

\* the request of lines 236-257
Request(style) ==
    [op |-> "post", call |-> batch.call, calls |-> CallsOf(Batch),
     scriptSessionId |-> session._script_session_id, reply |-> style]

\* lines 235-259: the request is posted, the server answers and parse_js is
\* called on the text of the response
Post ==
    /\ AtPost
    /\ \E style \in Styles :
          /\ wire' = Append(wire, Request(style))
          /\ Resume(Fresh(Response(style, CallsOf(Batch))))
    /\ heap' = <<>>
    /\ batch' = [batch EXCEPT !.at = "parse"]
    /\ UNCHANGED <<other, earlier, session, attempts, batch_size, info, status,
                   gradebook>>

\* line 257: the post raises
PostRaises ==
    /\ AtPost
    /\ wire' = Append(wire, Request("none"))
    /\ status' = Raised(Raise("ConnectionError", "post", <<>>))
    /\ batch' = [batch EXCEPT !.at = "idle"]
    /\ NoDecode
    /\ UNCHANGED <<session, attempts, batch_size, info>>

\* lines 258-262 and 270-271, were a failed request posted once more
CollectOrRetry ==
    /\ status.kind = "running"
    /\ batch.at = "parse"
    /\ outcome.kind \in {"returned", "raised"}
    /\ IF outcome.kind = "returned"
          /\ \A k \in 0..(Len(Batch) - 1) : k \in DOMAIN outcome.val
       THEN /\ info' = info \o [k \in 1..Len(Batch) |-> outcome.val[k - 1]]
            /\ batch' = [batch EXCEPT !.i = batch.i + batch_size,
                                      !.at = "loop"]
       ELSE /\ batch' = [batch EXCEPT !.at = "loop"]
            /\ Len(wire) < 2 * MaxAttempts
            /\ UNCHANGED info
    /\ outcome' = Idle
    /\ UNCHANGED <<code, items, i, locals, heap, results, exceptions, trace,
                   other, earlier, session, attempts, batch_size, wire,
                   status, gradebook>>

\* lines 258-262 and 270-271: parse_js has ended; its mapping gives the
\* results of the calls, which results is extended with
Collect ==
    LET Got(r) ==
            IF r.exc # "none"
            THEN /\ status' = Raised(r)
                 /\ batch' = [batch EXCEPT !.at = "idle"]
                 /\ UNCHANGED info
            ELSE /\ info' = info \o r.val
                 /\ batch' = [batch EXCEPT !.i = batch.i + batch_size,
                                           !.at = "loop"]
                 /\ UNCHANGED status
        Pick(ids) ==
            IF \E k \in ids : k \notin DOMAIN outcome.val
            THEN Raise("KeyError", "results",
                       CHOOSE k \in ids : k \notin DOMAIN outcome.val
                                          /\ \A n \in 0..(k - 1) :
                                                n \in DOMAIN outcome.val)
            ELSE Val([k \in 1..Len(Batch) |-> outcome.val[k - 1]])
    IN  /\ status.kind = "running"
        /\ batch.at = "parse"
        /\ outcome.kind \in {"returned", "raised"}
        /\ Got(IF outcome.kind = "raised"
               THEN (IF outcome.exc = "ValueError"
                     THEN Raise("ParserError", outcome.msg, outcome.val)
                     ELSE Raise(outcome.exc, outcome.msg, outcome.val))
               ELSE Pick(0..(Len(Batch) - 1)))
        /\ outcome' = Idle
        /\ UNCHANGED <<code, items, i, locals, heap, results, exceptions,
                       trace, other, earlier, session, attempts, batch_size,
                       wire, gradebook>>

\* dwr_get_attempts_info has ended and is called once more on the session
CallAgain ==
    /\ status.kind \in {"returned", "raised"}
    /\ batch.call < MaxCalls
    /\ batch' = [i |-> 0, at |-> "loop", call |-> batch.call + 1]
    /\ info' = <<>>
    /\ status' = Running
    /\ outcome' = Idle
    /\ UNCHANGED <<code, items, i, locals, heap, results, exceptions, trace,
                   other, earlier, session, attempts, batch_size, wire,
                   gradebook>>

NextFetch ==
    \/ RaiseSkipped(mo)
    \/ ExecThrow(mo)
    \/ ExecComment(mo)
    \/ ExecVar(mo)
    \/ ExecSetattr(mo)
    \/ ExecSetitem(mo)
    \/ ExecCall(mo)
    \/ ExecCalldict(mo)
    \/ ExecException(mo)
    \/ Finish(mo)
    \/ ReturnInfo
    \/ FetchScript
    \/ FetchRaises
    \/ Post
    \/ PostRaises
    \/ Collect
    \/ CallAgain

SpecFetch == InitFetch /\ [][NextFetch]_vars

\* ------------------------------------------------------------ Gradebook

(***************************************************************************)
(* Gradebook.refresh of gradebook.py.  self.students maps a user id to the *)
(* user's groups and assignments, the assignments map a handin id to       *)
(* score, needs_grading and attempts.  The clock of fetch_time counts the  *)
(* refreshes.  Dictionaries are gone through by ascending user id.         *)
(***************************************************************************)

MaxRefresh == 2

\* the (user, handin) pairs of the course, in the order of the rows
Pairs == << <<1, 1>>, <<2, 1>> >>

Users == {p[1] : p \in Range(Pairs)}

Handins == {p[2] : p \in Range(Pairs)}

\* the cell of a row: none, or a score and whether it awaits grading
Cells == {[c |-> FALSE, v |-> 0, ng |-> FALSE]}
             \cup [c : {TRUE}, v : {0, 1}, ng : BOOLEAN]

\* what the server may answer to getJSONData: rows of cells
Overviews == UNION {[U -> [Handins -> Cells]] : U \in SUBSET Users}

\* lines 146-178: the users of the rows, no attempts and no groups yet
FetchOverview(o) ==
    [u \in DOMAIN o |->
        [groups |-> None,
         assignments |->
            [a \in {h \in Handins : o[u][h].c} |->
                [score |-> o[u][a].v,
                 needs_grading |-> o[u][a].ng,
                 attempts |-> None]]]]

\* the users the group list of the server names
Listed == {1}

\* lines 89-102: the groups of the users the group list names
FetchGroups(new, listed) ==
    [u \in DOMAIN new |->
        IF u \in listed THEN [new[u] EXCEPT !.groups = <<"group">>]
        ELSE new[u]]

\* lines 180-198, were the scores not compared
CopyStudentDataAnyScore(new, old) ==
    LET Carry(a1, a2) ==
            IF a1.needs_grading /\ ~a2.needs_grading THEN a1
            ELSE IF a1.attempts = None
            THEN [a1 EXCEPT !.attempts = a2.attempts]
            ELSE a1
        User(user, prev_user) ==
            [groups |-> IF user.groups = None THEN prev_user.groups
                        ELSE user.groups,
             assignments |->
                [a \in DOMAIN user.assignments |->
                    IF a \notin DOMAIN prev_user.assignments
                    THEN user.assignments[a]
                    ELSE Carry(user.assignments[a],
                               prev_user.assignments[a])]]
    IN  [u \in DOMAIN new |->
            IF u \notin DOMAIN old THEN new[u] ELSE User(new[u], old[u])]

\* lines 180-198: copy_student_data, on the new students and the previous
CopyStudentData(new, old) ==
    LET Carry(a1, a2) ==
            IF a1.needs_grading /\ ~a2.needs_grading THEN a1
            ELSE IF a1.score # a2.score THEN a1
            ELSE IF a1.attempts = None
            THEN [a1 EXCEPT !.attempts = a2.attempts]
            ELSE a1
        User(user, prev_user) ==
            [groups |-> IF user.groups = None THEN prev_user.groups
                        ELSE user.groups,
             assignments |->
                [a \in DOMAIN user.assignments |->
                    IF a \notin DOMAIN prev_user.assignments
                    THEN user.assignments[a]
                    ELSE Carry(user.assignments[a],
                               prev_user.assignments[a])]]
    IN  [u \in DOMAIN new |->
            IF u \notin DOMAIN old THEN new[u] ELSE User(new[u], old[u])]

\* lines 201-205: the pairs whose attempts are None
AttemptKeys(sts) ==
    SelectSeq(Pairs, LAMBDA p :
        /\ p[1] \in DOMAIN sts
        /\ p[2] \in DOMAIN sts[p[1]].assignments
        /\ sts[p[1]].assignments[p[2]].attempts = None)

\* batch_size of line 265
DefaultBatch == 20

InitBook ==
    /\ code = <<>>
    /\ items = <<>>
    /\ i = 0
    /\ locals = <<>>
    /\ heap = <<>>
    /\ results = <<>>
    /\ exceptions = <<>>
    /\ outcome = Idle
    /\ trace = <<>>
    /\ other = NoFrame
    /\ earlier = NoEarlier
    /\ session = [_script_session_id |-> <<>>]
    /\ attempts = <<>>
    /\ batch_size = DefaultBatch
    /\ batch = [i |-> 0, at |-> "idle", call |-> 0]
    /\ info = <<>>
    /\ status = Running
    /\ wire = <<>>
    /\ NoGradebook

\* refresh may be called: it is not running, and the Gradebook exists,
\* which it does not when the refresh of lines 27-29 raised
Callable ==
    /\ refresh # "running"
    /\ refresh = "raised" => fetch_time > 1

\* lines 40-46 and 201-206: the overview is fetched, the previous students'
\* data are copied or the groups fetched, and dwr_get_attempts_info is
\* called with the pairs whose attempts are None
Refresh ==
    /\ Callable
    /\ fetch_time < MaxRefresh
    /\ fetch_time' = fetch_time + 1
    /\ prev' = students
    /\ assignment_ids' = Some(Handins)
    /\ \E o \in Overviews :
          students' = Some(IF students # Unset
                           THEN CopyStudentData(FetchOverview(o), students[1])
                           ELSE FetchGroups(FetchOverview(o), Listed))
    /\ attempt_keys' = AttemptKeys(students'[1])
    /\ attempts' = attempt_keys'
    /\ batch_size' = DefaultBatch
    /\ batch' = [i |-> 0, at |-> "loop", call |-> batch.call + 1]
    /\ info' = <<>>
    /\ status' = Running
    /\ refresh' = "running"
    /\ UNCHANGED <<code, items, i, locals, heap, results, exceptions, outcome,
                   trace, other, earlier, session, wire>>

\* line 42: fetch_overview raises
OverviewRaises ==
    /\ Callable
    /\ fetch_time < MaxRefresh
    /\ fetch_time' = fetch_time + 1
    /\ refresh' = "raised"
    /\ UNCHANGED <<code, items, i, locals, heap, results, exceptions, outcome,
                   trace, other, earlier, fetching, students, assignment_ids,
                   prev, attempt_keys>>

\* lines 207-208, were the data paired with the keys from the far end
StoreAttemptsReversed ==
    /\ refresh = "running"
    /\ status.kind = "returned"
    /\ students' = Some(
          [u \in DOMAIN students[1] |->
              [students[1][u] EXCEPT !.assignments =
                  [a \in DOMAIN students[1][u].assignments |->
                      IF \E k \in 1..Len(attempt_keys) :
                            attempt_keys[k] = <<u, a>>
                      THEN [students[1][u].assignments[a] EXCEPT !.attempts =
                              status.val[
                                 Len(attempt_keys) + 1 -
                                 (CHOOSE k \in 1..Len(attempt_keys) :
                                     attempt_keys[k] = <<u, a>>)]]
                      ELSE students[1][u].assignments[a]]]])
    /\ refresh' = "returned"
    /\ UNCHANGED <<code, items, i, locals, heap, results, exceptions, outcome,
                   trace, other, earlier, fetching, assignment_ids,
                   fetch_time, prev, attempt_keys>>

\* lines 207-208: dwr_get_attempts_info has returned; each of its data is
\* stored on the pair of the same position
StoreAttempts ==
    /\ refresh = "running"
    /\ status.kind = "returned"
    /\ students' = Some(
          [u \in DOMAIN students[1] |->
              [students[1][u] EXCEPT !.assignments =
                  [a \in DOMAIN students[1][u].assignments |->
                      IF \E k \in 1..Len(attempt_keys) :
                            k <= Len(status.val) /\ attempt_keys[k] = <<u, a>>
                      THEN [students[1][u].assignments[a] EXCEPT !.attempts =
                              status.val[
                                 CHOOSE k \in 1..Len(attempt_keys) :
                                     attempt_keys[k] = <<u, a>>]]
                      ELSE students[1][u].assignments[a]]]])
    /\ refresh' = "returned"
    /\ UNCHANGED <<code, items, i, locals, heap, results, exceptions, outcome,
                   trace, other, earlier, fetching, assignment_ids,
                   fetch_time, prev, attempt_keys>>

\* line 206: dwr_get_attempts_info has raised, and so does refresh
RefreshRaises ==
    /\ refresh = "running"
    /\ status.kind = "raised"
    /\ refresh' = "raised"
    /\ UNCHANGED <<code, items, i, locals, heap, results, exceptions, outcome,
                   trace, other, earlier, fetching, students, assignment_ids,
                   fetch_time, prev, attempt_keys>>

NextBook ==
    \/ RaiseSkipped(mo)
    \/ ExecThrow(mo)
    \/ ExecComment(mo)
    \/ ExecVar(mo)
    \/ ExecSetattr(mo)
    \/ ExecSetitem(mo)
    \/ ExecCall(mo)
    \/ ExecCalldict(mo)
    \/ ExecException(mo)
    \/ Finish(mo)
    \/ ReturnInfo
    \/ FetchScript
    \/ FetchRaises
    \/ Post
    \/ PostRaises
    \/ Collect
    \/ Refresh
    \/ OverviewRaises
    \/ StoreAttempts
    \/ RefreshRaises

SpecBook == InitBook /\ [][NextBook]_vars

\* ------------------------------------------------------------ properties

(***************************************************************************)
(* The kinds of failure of a decode, told by where the exception comes     *)
(* from: js_object_parse (a literal that does not evaluate), lines 173 and *)
(* 226 (text no pattern matches), locals[name] (a name never declared) and *)
(* line 229 (the exceptions the server reported).                          *)
(***************************************************************************)

Terminated == outcome.kind # "running"

IsLiteralFailure(o) ==
    /\ o.kind = "raised"
    /\ \/ o.exc = "SyntaxError"
       \/ o.exc = "ValueError" /\ o.msg = "Unhandled node type"
       \/ o.exc = "KeyError" /\ o.msg = "js_constants"
       \/ o.exc = "TypeError" /\ o.msg = "unhashable type"

IsParseError(o) ==
    o.kind = "raised" /\ o.exc = "ValueError" /\ o.msg = "Did not parse"

IsLookupFailure(o) ==
    o.kind = "raised" /\ o.exc = "KeyError" /\ o.msg = "locals"

IsRemoteError(o) ==
    /\ o.kind = "raised"
    /\ o.exc = "ValueError"
    /\ o.msg = "DWR returned exceptions"

\* the statements of the given kinds among sts, in order
OfKinds(sts, kinds) == SelectSeq(sts, LAMBDA st : st[1] \in kinds)

\* the record (batchId, callId, className, message) of an exception statement
RecordOf(st) == PyTuple(<<PyNum(st[2]), PyNum(st[3]), st[4], st[5]>>)

\* one record for each exception statement of the input, in order
RecordsOf(sts) ==
    [k \in 1..Len(OfKinds(sts, {"exception"})) |->
        RecordOf(OfKinds(sts, {"exception"})[k])]

\* C1: when the scan completes (the loop runs out of matches while no
\* statement has failed, and what is left of the input is whitespace) on an
\* input that holds an exception statement, parse_js raises the remote
\* exception error, whose records are those of the exception statements of
\* the input, one each and in their order, whatever calls the input holds.
C1_RemoteExceptions ==
    [][(/\ outcome.kind = "running"
        /\ mo.key = "none"
        /\ Strip(Slice(code, i, Len(code))) = <<>>
        /\ RecordsOf(items) # <<>>)
       => /\ IsRemoteError(outcome')
          /\ outcome'.val = RecordsOf(items)]_vars

\* C1 at work: an error that carries two records while calls were recorded
C1_Witness ==
    /\ IsRemoteError(outcome)
    /\ Len(outcome.val) = 2
    /\ results # <<>>

\* the call ids of the call statements of the input, in order
CallIds(sts) ==
    [k \in 1..Len(OfKinds(sts, {"call", "calldict"})) |->
        OfKinds(sts, {"call", "calldict"})[k][3]]

\* the last of the call statements that bears call id c
LastWith(ids, c) ==
    CHOOSE k \in 1..Len(ids) :
        ids[k] = c /\ \A n \in (k + 1)..Len(ids) : ids[n] # c

\* C2: when parse_js returns, the keys of the mapping are the call ids of the
\* call statements executed, positional and keyed, and each call id maps to
\* the data of the last of these statements that bears it, whatever the batch
\* ids.
C2_LastCallWins ==
    outcome.kind = "returned" =>
        /\ Len(trace) = Len(items)
        /\ Len(results) = Len(CallIds(items))
        /\ DOMAIN outcome.val = Range(CallIds(items))
        /\ \A c \in DOMAIN outcome.val :
              outcome.val[c] =
                  Deref(results[LastWith(CallIds(items), c)][3], heap)

\* C2 at work: a mapping returned after two calls with one call id and
\* different data
C2_Witness ==
    /\ outcome.kind = "returned"
    /\ \E j, k \in 1..Len(results) :
          /\ j < k
          /\ results[j][2] = results[k][2]
          /\ results[j][1] # results[k][1]
          /\ Deref(results[j][3], heap) # Deref(results[k][3], heap)

\* every match of the input, as finditer yields them whatever the loop does
Matches == MatchesFrom(code, 0)

\* the text between the k-th match and the next: before the first match for
\* k = 0, after the last for k = Len(Matches)
Gap(k) ==
    Slice(code,
          IF k = 0 THEN 0 ELSE Matches[k].end,
          IF k = Len(Matches) THEN Len(code) ELSE Matches[k + 1].start)

IsBlank(t) == \A k \in 1..Len(t) : t[k] \in Whitespace

\* the gaps that hold more than whitespace
BadGaps == {k \in 0..Len(Matches) : ~IsBlank(Gap(k))}

\* the least element of a non-empty set of numbers
MinOf(S) == CHOOSE x \in S : \A y \in S : x <= y

\* while the scan runs and once it has completed, every character before the
\* scan position is inside a statement executed or is whitespace
Accounted ==
    (outcome.kind \in {"running", "returned"} \/ IsRemoteError(outcome)) =>
        \A p \in 0..(i - 1) :
            \/ code[p + 1] \in Whitespace
            \/ \E k \in 1..Len(trace) : trace[k].start <= p /\ p < trace[k].end

\* a mapping or a remote exception error only when every gap is whitespace
CleanWhenDone ==
    (outcome.kind = "returned" \/ IsRemoteError(outcome)) => BadGaps = {}

\* C3, as the specification has it: every character before the scan position
\* is inside a statement or is whitespace; parse_js returns a mapping or
\* raises the remote exception error only if every gap is whitespace, and
\* otherwise raises a parse error that names the gap stripped.
C3_AsStated ==
    /\ Accounted
    /\ CleanWhenDone
    /\ (Terminated /\ BadGaps # {}) =>
          /\ IsParseError(outcome)
          /\ outcome.val = Strip(Gap(MinOf(BadGaps)))

\* C3, amended: every character before the scan position is inside a
\* statement or is whitespace; parse_js returns a mapping or raises the
\* remote exception error only if every gap is whitespace, and otherwise
\* fails: with a parse error that names the first such gap stripped, unless a
\* statement before that gap has failed, and then with that failure.
C3_GapsAreWhitespace ==
    /\ Accounted
    /\ CleanWhenDone
    /\ (Terminated /\ BadGaps # {}) =>
          /\ outcome.kind = "raised"
          /\ \/ /\ IsParseError(outcome)
                /\ outcome.val = Strip(Gap(MinOf(BadGaps)))
                /\ Len(trace) = MinOf(BadGaps)
             \/ /\ ~IsParseError(outcome)
                /\ ~IsRemoteError(outcome)
                /\ Len(trace) >= 1
                /\ Len(trace) <= MinOf(BadGaps)

\* C3 at work: a parse error for the text between two statements, after the
\* first was executed
C3_Witness ==
    /\ IsParseError(outcome)
    /\ Len(trace) >= 1
    /\ Len(Matches) > Len(trace)
    /\ outcome.val = Strip(Gap(Len(trace)))

\* the statement the loop is at, when the first statements of the input are
\* those executed so far
Current == items[Len(trace) + 1]

\* the statements executed so far and the next are the first of the input,
\* one match each: no fragment has come up yet
Aligned ==
    /\ Len(trace) < Len(items)
    /\ \A k \in 1..(Len(trace) + 1) : items[k][1] # "raw"

\* the text of a keyed entry
KvText(kv) == Literal(kv[1]) \o <<":">> \o kv[2]

\* whether statement st would fail, executed with environment env and heap h
WouldFail(st, env, h) ==
    CASE st[1] \in {"throw", "comment"} -> FALSE
      [] st[1] = "var" -> js_object_parse(Literal(st[3])).exc # "none"
      [] st[1] = "setattr" ->
            \/ js_object_parse(Literal(st[4])).exc # "none"
            \/ st[2] \notin DOMAIN env
            \/ SetItem(h[env[st[2]]], PyStr(st[3]),
                       js_object_parse(Literal(st[4])).val).exc # "none"
      [] st[1] = "setitem" ->
            \/ js_object_parse(Literal(st[3])).exc # "none"
            \/ js_object_parse(Literal(st[4])).exc # "none"
            \/ st[2] \notin DOMAIN env
            \/ SetIndex(h[env[st[2]]], js_object_parse(Literal(st[3])).val,
                        js_object_parse(Literal(st[4])).val).exc # "none"
      [] st[1] = "call" -> \E k \in 1..Len(st[4]) : st[4][k] \notin DOMAIN env
      [] st[1] = "calldict" ->
            KeyedData(env, [k \in 1..Len(st[4]) |-> KvText(st[4][k])],
                      <<>>).exc # "none"
      [] st[1] = "exception" ->
            \/ js_object_parse(Literal(st[4])).exc # "none"
            \/ js_object_parse(Literal(st[5])).exc # "none"
      [] st[1] = "raw" -> TRUE

\* the scan stands, after statements that all executed, at a fragment that is
\* no whitespace and that statements follow
AtStrayText ==
    /\ outcome.kind = "running"
    /\ Len(trace) >= 1
    /\ Len(items) >= Len(trace) + 2
    /\ \A k \in 1..Len(trace) : items[k][1] # "raw"
    /\ Current[1] = "raw"
    /\ \A k \in (Len(trace) + 2)..Len(items) : items[k][1] # "raw"

\* where the fragment the scan stands at begins and ends in the input
StrayStart == Len(RenderAll(SubSeq(items, 1, Len(trace))))

StrayEnd == StrayStart + Len(Current[2])

\* C4, as the specification has it: a fragment that is no whitespace, put
\* between two statements of a sequence that is valid without it, makes
\* parse_js raise a parse error, whatever follows the fragment.
C4_AsStated ==
    [][(/\ AtStrayText
        /\ \A k \in (Len(trace) + 2)..Len(items) :
              ~WouldFail(items[k], locals, heap))
       => IsParseError(outcome')]_vars

\* C4, amended: a fragment that is no whitespace, put between two statements,
\* makes parse_js raise a parse error that names it, whatever follows the
\* fragment, provided the fragment stays outside every match: the next match
\* begins after it.
C4_StrayText ==
    [][(/\ AtStrayText
        /\ (mo.key = "none" \/ mo.start >= StrayEnd))
       => /\ IsParseError(outcome')
          /\ outcome'.val = Current[2]]_vars

\* C4 at work: the parse error for a fragment between two statements, the one
\* after it left alone
C4_Witness ==
    /\ IsParseError(outcome)
    /\ Len(trace) >= 1
    /\ Len(items) = Len(trace) + 2
    /\ Current[1] = "raw"
    /\ outcome.val = Current[2]
    /\ items[Len(items)][1] = "call"

\* C5: parse_js either returns a mapping or raises one error, and the error
\* is of one of four kinds: a literal that does not evaluate, a parse error,
\* a lookup failure, the remote exception error.
C5_FourKinds ==
    Terminated =>
        \/ outcome.kind = "returned"
        \/ IsLiteralFailure(outcome)
        \/ IsParseError(outcome)
        \/ IsLookupFailure(outcome)
        \/ IsRemoteError(outcome)

\* the objects the names refer to in environment env
RefsOf(names, env) == [k \in 1..Len(names) |-> Ref(env[names[k]])]

\* C6: a positional call that lists names n1..nk, all bound, appends one
\* entry (batchId, callId, list) to results; the list has k elements, the
\* i-th being what ni is bound to when the call is executed; no names give
\* the empty list.
C6_PositionalCall ==
    [][(/\ outcome.kind = "running"
        /\ Aligned
        /\ Current[1] = "call"
        /\ \A k \in 1..Len(Current[4]) : Current[4][k] \in DOMAIN locals)
       => /\ mo.key = "call"
          /\ outcome' = outcome
          /\ results' =
                Append(results,
                       <<Current[2], Current[3],
                         PyList(RefsOf(Current[4], locals))>>)
          /\ Deref(results'[Len(results')][3], heap') =
                PyList([k \in 1..Len(Current[4]) |->
                           heap[locals[Current[4][k]]]])]_vars

\* C6 at work: a call executed with three names, one of them twice, and
\* different objects for different names
C6_Witness ==
    /\ trace # <<>>
    /\ trace[Len(trace)].key = "call"
    /\ results # <<>>
    /\ Len(results[Len(results)][3][2]) = 3
    /\ results[Len(results)][3][2][1] = results[Len(results)][3][2][2]
    /\ results[Len(results)][3][2][1] # results[Len(results)][3][2][3]

\* C7: a keyed call with entries (key1, var1)..(keyN, varN), the names bound
\* and the keys literals that evaluate, appends one entry to results, whose
\* data are the N pairs (the value of key_i, what var_i is bound to) in
\* order; so for every key the pattern accepts, a string with a comma too.
C7_KeyedCall ==
    [][(/\ outcome.kind = "running"
        /\ Aligned
        /\ Current[1] = "calldict"
        /\ mo.key = "calldict"
        /\ \A k \in 1..Len(Current[4]) :
              /\ Current[4][k][2] \in DOMAIN locals
              /\ js_object_parse(Literal(Current[4][k][1])) =
                    Val(Current[4][k][1]))
       => /\ outcome' = outcome
          /\ results' =
                Append(results,
                       <<Current[2], Current[3],
                         PyList([k \in 1..Len(Current[4]) |->
                                    PyTuple(<<Current[4][k][1],
                                              Ref(locals[Current[4][k][2]])>>)])
                       >>)]_vars

\* the index assignments among the statements sts that bear on name, since
\* its last declaration among them
LastVar(sts, name) ==
    MaxOf({k \in 1..Len(sts) : sts[k][1] = "var" /\ sts[k][2] = name})

Assigned(sts, name) ==
    {sts[k][3][2] : k \in {n \in (LastVar(sts, name) + 1)..Len(sts) :
                              sts[n][1] = "setitem" /\ sts[n][2] = name}}

\* the length name was declared with
Declared(sts, name) == Len(sts[LastVar(sts, name)][3][2])

\* the statements executed, in a state the scan runs in
Executed == SubSeq(items, 1, Len(trace))

\* the names bound to a sequence, while the first statements of the input are
\* those executed
Sequences ==
    IF outcome.kind = "running" /\ \A k \in 1..Len(trace) : items[k][1] # "raw"
    THEN {n \in DOMAIN locals : heap[locals[n]][1] = "list"}
    ELSE {}

\* the elements of the sequence that name is bound to
Elements(name) == heap[locals[name]][2]

\* what one index assignment does: st is the statement, before and after are
\* the object it bears on
IndexAssigned(st, before, after) ==
    IF before[1] = "list"
    THEN IF Len(before[2]) <= st[3][2]
         THEN /\ Len(after[2]) = st[3][2] + 1
              /\ \A p \in 1..Len(before[2]) : after[2][p] = before[2][p]
              /\ \A p \in (Len(before[2]) + 1)..st[3][2] : after[2][p] = PyNone
              /\ after[2][st[3][2] + 1] = st[4]
              /\ after[1] = "list"
         ELSE /\ Len(after[2]) = Len(before[2])
              /\ after[2][st[3][2] + 1] = st[4]
              /\ \A p \in 1..Len(before[2]) :
                    p # st[3][2] + 1 => after[2][p] = before[2][p]
              /\ after[1] = "list"
    ELSE /\ after[1] = "dict"
         /\ \E p \in 1..Len(after[2]) : after[2][p] = <<st[3], st[4]>>
         /\ \A p \in 1..Len(before[2]) :
               ~PyKeyEq(before[2][p][1], st[3]) =>
                   \E q \in 1..Len(after[2]) : after[2][q] = before[2][p]
         /\ \A q \in 1..Len(after[2]) :
               \/ PyKeyEq(after[2][q][1], st[3])
               \/ \E p \in 1..Len(before[2]) : before[2][p] = after[2][q]

\* an index assignment with an index that is a natural number and a value
\* that evaluates, on a name bound to a sequence or a map, is executed next
AtIndexAssignment ==
    /\ outcome.kind = "running"
    /\ Aligned
    /\ Current[1] = "setitem"
    /\ Current[2] \in DOMAIN locals
    /\ heap[locals[Current[2]]][1] \in {"list", "dict"}
    /\ Current[3][1] = "num"
    /\ Current[3][2] >= 0
    /\ js_object_parse(Literal(Current[4])) = Val(Current[4])

\* each index assignment pads, overwrites or sets a key, and touches nothing
\* else
C8_EachAssignment ==
    AtIndexAssignment =>
        /\ outcome' = outcome
        /\ locals' = locals
        /\ Len(heap') = Len(heap)
        /\ \A a \in 1..Len(heap) :
              a # locals[Current[2]] => heap'[a] = heap[a]
        /\ IndexAssigned(Current, heap[locals[Current[2]]],
                         heap'[locals[Current[2]]])

\* C8, as the specification has it: an index assignment name[idx]=v on a
\* sequence of length L pads with Null up to idx and appends v if L <= idx,
\* and overwrites element idx otherwise; on a map it sets key idx; so after
\* any index assignments the length of the sequence is the greatest index
\* plus one and every position never assigned is Null.
C8_AsStated ==
    /\ [][C8_EachAssignment]_vars
    /\ [](\A n \in Sequences :
             Assigned(Executed, n) # {} =>
                /\ Len(Elements(n)) = MaxOf(Assigned(Executed, n)) + 1
                /\ \A p \in 0..(Len(Elements(n)) - 1) :
                      p \notin Assigned(Executed, n) =>
                          Elements(n)[p + 1] = PyNone)

\* C8, amended: the same for one assignment; so after any index assignments
\* the length of the sequence is the greater of the length it was declared
\* with and the greatest index plus one, and every position never assigned,
\* from the declared length on, is Null.
C8_IndexAssignment ==
    /\ [][C8_EachAssignment]_vars
    /\ [](\A n \in Sequences :
             /\ Len(Elements(n)) =
                   MaxOf({Declared(Executed, n)}
                         \cup {p + 1 : p \in Assigned(Executed, n)})
             /\ \A p \in Declared(Executed, n)..(Len(Elements(n)) - 1) :
                   p \notin Assigned(Executed, n) =>
                       Elements(n)[p + 1] = PyNone)

\* C8 at work: a sequence declared empty, assigned at 2 and then at 0
C8_Witness ==
    /\ Name_s \in Sequences
    /\ Declared(Executed, Name_s) = 0
    /\ Assigned(Executed, Name_s) = {0, 2}
    /\ Elements(Name_s) = <<PyNum(6), PyNone, PyNum(5)>>

\* the names a statement refers to, in the order the code looks them up
NamesOf(st) ==
    CASE st[1] \in {"setattr", "setitem"} -> <<st[2]>>
      [] st[1] = "call" -> st[4]
      [] st[1] = "calldict" -> [k \in 1..Len(st[4]) |-> st[4][k][2]]
      [] OTHER -> <<>>

\* the first of the names of st that env does not bind
Unbound(st, env) ==
    NamesOf(st)[MinOf({k \in 1..Len(NamesOf(st)) :
                          NamesOf(st)[k] \notin DOMAIN env})]

\* a statement that refers to a name never declared is executed next
AtUndeclared ==
    /\ outcome.kind = "running"
    /\ Aligned
    /\ \E k \in 1..Len(NamesOf(Current)) :
          NamesOf(Current)[k] \notin DOMAIN locals

\* whether what the code works out before it looks a name of st up succeeds:
\* the value assigned, the index, the keys of a keyed call up to the name
OperandsEvaluate(st, env) ==
    CASE st[1] = "setattr" -> js_object_parse(Literal(st[4])).exc = "none"
      [] st[1] = "setitem" ->
            /\ js_object_parse(Literal(st[3])).exc = "none"
            /\ js_object_parse(Literal(st[4])).exc = "none"
      [] st[1] = "calldict" ->
            \A k \in 1..Len(st[4]) :
                (\A n \in 1..(k - 1) : st[4][n][2] \in DOMAIN env) =>
                    /\ Len(Split(Literal(st[4][k][1]), ",")) = 1
                    /\ Len(Split(Literal(st[4][k][1]), ":")) = 1
                    /\ js_object_parse(Literal(st[4][k][1])).exc = "none"
      [] OTHER -> TRUE

\* once parse_js has raised or returned, nothing more is executed
Final == Terminated => UNCHANGED vars

C10_EnvironmentKept ==
    [][(/\ outcome.kind = "running"
        /\ mo.key \in {"call", "calldict", "exception"}
        /\ trace' # trace)
       => /\ locals' = locals
          /\ heap' = heap
          /\ (mo.key = "exception" => results' = results)
          /\ (mo.key # "exception" => exceptions' = exceptions)]_vars

\* C10 at work: a keyed call recorded while names are bound
C10_Witness ==
    /\ trace # <<>>
    /\ trace[Len(trace)].key = "calldict"
    /\ results # <<>>
    /\ locals # <<>>
    /\ outcome.kind = "running"

\* the calls of parse_js under way or ended, once the first decode is over
Calls == IF earlier = NoEarlier THEN {} ELSE {Frame, other}

\* a throw or a comment is executed by the running call
AtNoOp ==
    /\ outcome.kind = "running"
    /\ mo.key \in {"throw", "comment"}
    /\ Strip(Skipped(mo)) = <<>>
    /\ i' = mo.end
    /\ code' = code
    /\ other' = other

\* C11: a throw and a comment leave the environment, results and exceptions
\* as they are; so a response that begins with the throw and a framing
\* comment line decodes to the outcome of the response without them.
C11_NoOps ==
    /\ [][AtNoOp => UNCHANGED <<locals, heap, results, exceptions, outcome>>]_vars
    /\ [](\A f \in Calls :
             (f.outcome.kind # "running"
                  /\ f.items = Preamble \o earlier.items)
                 => f.outcome = earlier.outcome)

\* C11 at work: a response behind the preamble has decoded to the mapping it
\* decodes to without, a mapping with data in it
C11_Witness ==
    /\ earlier # NoEarlier
    /\ items = Preamble \o earlier.items
    /\ outcome.kind = "returned"
    /\ outcome = earlier.outcome
    /\ \E c \in DOMAIN outcome.val : outcome.val[c][2] # <<>>
    /\ Len(trace) = Len(items)

\* a call of parse_js begins
Begins ==
    /\ earlier = NoEarlier
    /\ earlier' # NoEarlier

\* the running thread takes a step of its call: no switch of threads
Runs ==
    /\ earlier # NoEarlier
    /\ code' = code
    /\ i' # i
    /\ ~(Frame' = other /\ other' = Frame)

\* C13: every call of parse_js starts with an empty environment, empty
\* results and empty exceptions and shares no state with another call: the
\* outcome of a decode depends on its input alone, so however the decodes of
\* two threads are interleaved, a response decodes to what it decodes to
\* alone; a step of one call leaves the frame of the other as it is, and the
\* names a call has bound are names its own input declares.
C13_Isolated ==
    /\ [][Begins =>
             \A f \in {Frame', other'} :
                 /\ f.locals = <<>>
                 /\ f.results = <<>>
                 /\ f.exceptions = <<>>]_vars
    /\ [][Runs => other' = other]_vars
    /\ [](\A f \in Calls :
             /\ (f.outcome.kind # "running" /\ f.items = earlier.items)
                    => f.outcome = earlier.outcome
             /\ \A n \in DOMAIN f.locals :
                    \E k \in 1..Len(f.items) :
                        f.items[k][1] = "var" /\ f.items[k][2] = n)

\* C13 at work: a response that uses the name s without declaring it has
\* failed on it, as it does alone, while the other thread has s bound
C13_Witness ==
    /\ earlier # NoEarlier
    /\ items = earlier.items
    /\ IsLookupFailure(outcome)
    /\ outcome = earlier.outcome
    /\ outcome.val = Name_s
    /\ Name_s \in DOMAIN other.locals

\* the values of the literal subset that the statements executed so far
\* assign: what a declaration or a field assignment holds, names apart
Assigns ==
    {items[k][Len(items[k])] :
        k \in {n \in 1..Len(trace) :
                  /\ \A j \in 1..n : items[j][1] # "raw"
                  /\ items[n][1] \in {"var", "setattr"}
                  /\ items[n][Len(items[n])][1] # "name"}}

\* C12: js_object_parse, given the text of a value of the literal subset
\* (null, booleans, numbers, negative ones too, strings, arrays, objects),
\* returns a value equal to it.
C12_RoundTrip ==
    \A v \in Assigns : js_object_parse(Literal(v)) = Val(v)

\* the groups the pattern of statement st captures in the text of st
Captures(st) ==
    CASE st[1] = "throw" -> <<>>
      [] st[1] = "comment" -> <<st[2]>>
      [] st[1] = "var" -> <<st[2], Literal(st[3])>>
      [] st[1] = "setattr" -> <<st[2], st[3], Literal(st[4])>>
      [] st[1] = "setitem" -> <<st[2], Literal(st[3]), Literal(st[4])>>
      [] st[1] = "call" ->
            <<Digits(st[2]), Digits(st[3]), Join(st[4], <<",">>)>>
      [] st[1] = "calldict" ->
            <<Digits(st[2]), Digits(st[3]),
              Join([k \in 1..Len(st[4]) |-> KvText(st[4][k])], <<",">>)>>
      [] st[1] = "exception" ->
            <<Digits(st[2]), Digits(st[3]), Literal(st[4]), Literal(st[5])>>

\* the loop has a match to deal with
AtMatch ==
    /\ outcome.kind = "running"
    /\ mo.key # "none"

\* C14: the scan takes the leftmost next match; of the patterns that match
\* there the earliest in the order throw, comment, var, setattr, setitem,
\* call, calldict, exception is the kind executed, and the groups the
\* branch gets are those of that pattern alone.
C14_LeftmostFirst ==
    [][AtMatch =>
          /\ mo.start >= i
          /\ \A j \in i..(mo.start - 1) :
                \A n \in 1..Len(PatternKeys) :
                    MatchKey(PatternKeys[n], code, j).key = "none"
          /\ \A n \in 1..(KeyIndex(mo.key) - 1) :
                MatchKey(PatternKeys[n], code, mo.start).key = "none"
          /\ MatchKey(mo.key, code, mo.start) = mo
          /\ trace' # trace =>
                trace'[Len(trace')] =
                    [key |-> mo.key, start |-> mo.start, end |-> mo.end]
          /\ Aligned =>
                /\ mo.key = Current[1]
                /\ trace' # trace
                /\ Slice(code, mo.start, mo.end) = Strip(Render(Current))
                /\ G(mo, 0) = Strip(Render(Current))
                /\ \A n \in 1..(Len(GroupsOf(mo)) - 1) :
                      G(mo, n) = IF n <= Len(Captures(Current))
                                 THEN Captures(Current)[n] ELSE None]_vars

\* C14 at work: a match executed though a pattern matches one offset on too
C14_Witness ==
    /\ trace # <<>>
    /\ trace[Len(trace)].key \in {"setattr", "setitem"}
    /\ MatchAt(code, trace[Len(trace)].start + 1).key # "none"
    /\ MatchAt(code, trace[Len(trace)].start + 1).end = trace[Len(trace)].end

\* the text after the scan position that no match is left in
Trailing == Strip(Slice(code, i, Len(code)))

\* C15: the remote exception error is raised only when the whole input has
\* been scanned, the text after the last match too; an exception statement
\* does not stop the scan, so every statement after it is still matched and
\* executed, and a parse, lookup or literal failure later in the input is
\* the error raised, not the remote exception error.
C15_Lifecycle ==
    /\ [](IsRemoteError(outcome) =>
             /\ mo.key = "none"
             /\ Trailing = <<>>
             /\ BadGaps = {}
             /\ Len(trace) = Len(Matches)
             /\ \A k \in 1..Len(trace) :
                   trace[k] = [key |-> Matches[k].key,
                               start |-> Matches[k].start,
                               end |-> Matches[k].end])
    /\ [][(outcome.kind = "running" /\ exceptions' # exceptions) =>
             /\ mo.key = "exception"
             /\ outcome' = Running
             /\ i' = mo.end
             /\ Len(trace') = Len(trace) + 1]_vars
    /\ [][(outcome.kind = "running" /\ exceptions # <<>>) =>
             /\ (Aligned /\ WouldFail(Current, locals, heap)) =>
                   /\ outcome'.kind = "raised"
                   /\ ~IsRemoteError(outcome')
                   /\ exceptions' = exceptions
             /\ (mo.key # "none" /\ Strip(Skipped(mo)) # <<>>) =>
                   IsParseError(outcome')
             /\ (mo.key = "none" /\ Trailing # <<>>) =>
                   IsParseError(outcome')
             /\ IsRemoteError(outcome') =>
                   (mo.key = "none" /\ Trailing = <<>>)]_vars

\* C15 at work: after an exception statement a call was executed, and the
\* statement after that has failed on a name never declared: that failure is
\* the outcome
C15_Witness ==
    /\ exceptions # <<>>
    /\ Len(trace) = 3
    /\ trace[1].key = "exception"
    /\ trace[2].key = "call"
    /\ results # <<>>
    /\ IsLookupFailure(outcome)

\* C16: once a call has been executed, what results holds for it is fixed:
\* no statement executed later, declaring a variable the call named again or
\* assigning to a field or an index of it, changes the data that the final
\* mapping has for the call.
C16_RecordedFixed ==
    [][outcome.kind = "running" =>
          \A k \in 1..Len(results) :
              /\ Len(results') >= k
              /\ results'[k] = results[k]
              /\ Deref(results'[k][3], heap') = Deref(results[k][3], heap)]_vars

\* the requests of the running call of dwr_get_attempts_info, in order
Posts == SelectSeq(wire, LAMBDA w : w.op = "post" /\ w.call = batch.call)

\* the number of requests the attempts make: the least k with
\* k * batch_size >= Len(attempts)
Needed == (Len(attempts) + batch_size - 1) \div batch_size

\* attempts[k*b : min(n, (k+1)*b)], k counted from 0
Group(k) ==
    Slice(attempts, k * batch_size,
          IF Len(attempts) < (k + 1) * batch_size
          THEN Len(attempts) ELSE (k + 1) * batch_size)

\* what a response of the given style decodes to for attempt a
Decoded(style, a) ==
    IF style = "keyed"
    THEN PyList(<<PyTuple(<<PyStr(<<"k">>),
                            PyDict(<< <<PyStr(Field_a),
                                        PyNum(Served(a))>> >>)>>)>>)
    ELSE PyList(<<PyList(<<PyNum(Served(a))>>)>>)

\* a request has failed: the post raised, parse_js raised, or the mapping
\* lacks the id of a call
RequestFails ==
    /\ status.kind = "running"
    /\ \/ /\ Len(wire') = Len(wire) + 1
          /\ wire'[Len(wire')].op = "post"
          /\ wire'[Len(wire')].reply = "none"
       \/ /\ batch.at = "parse"
          /\ \/ outcome.kind = "raised"
             \/ /\ outcome.kind = "returned"
                /\ \E k \in 0..(Len(Batch) - 1) : k \notin DOMAIN outcome.val

\* C17: dwr_get_attempts_info with n attempts and batch size b issues the
\* requests of the groups attempts[k*b : min(n, (k+1)*b)] in order, each
\* once, its calls numbered from 0, ceil(n/b) in all; when it returns, the
\* list has n elements, the i-th what the response decodes to for
\* attempts[i]; when a request fails the error is raised, no request follows
\* and no list is returned; with no attempts there is no request and the
\* list is empty.
C17_Batches ==
    /\ [](status.kind # "idle" =>
             /\ Len(Posts) <= Needed
             /\ \A k \in 1..Len(Posts) :
                   Posts[k].calls =
                       [n \in 1..Len(Group(k - 1)) |->
                           <<n - 1, attempts[(k - 1) * batch_size + n]>>]
             /\ status.kind = "returned" =>
                   /\ Len(Posts) = Needed
                   /\ Len(status.val) = Len(attempts)
                   /\ \A n \in 1..Len(attempts) :
                         status.val[n] =
                             Decoded(Posts[((n - 1) \div batch_size) + 1].reply,
                                     attempts[n])
             /\ (status.kind = "returned" /\ attempts = <<>>) =>
                   /\ status.val = <<>>
                   /\ \A k \in 1..Len(wire) : wire[k].call # batch.call)
    /\ [][RequestFails =>
             /\ status'.kind = "raised"
             /\ status'.exc # ""]_vars
    /\ [][(status.kind = "raised" /\ batch'.call = batch.call) =>
             /\ wire' = wire
             /\ status' = status]_vars

\* C17 at work: three attempts in batches of two have been fetched in two
\* requests that the server answered in different styles
C17_Witness ==
    /\ status.kind = "returned"
    /\ Len(attempts) = 3
    /\ batch_size = 2
    /\ Len(Posts) = 2
    /\ Posts[1].reply # Posts[2].reply
    /\ Len(status.val) = 3
    /\ status.val[3] = Decoded(Posts[2].reply, attempts[3])

\* the fetches of engine.js on the session
Gets == SelectSeq(wire, LAMBDA w : w.op = "get")

\* the script session id is the id found in engine.js or the default id, with
\* 42 after it; once the session has one it keeps it, it is what every later
\* request carries, and engine.js is not fetched again
TokenKept ==
    /\ [](session._script_session_id # <<>> =>
             \E asset \in Assets :
                 session._script_session_id = ScriptSessionId(asset))
    /\ [](\A k \in 1..Len(wire) :
             (wire[k].op = "post" /\ session._script_session_id # <<>>) =>
                 wire[k].scriptSessionId = session._script_session_id)
    /\ [][session._script_session_id # <<>> =>
             /\ session' = session
             /\ Gets' = Gets]_vars
    /\ [][Gets' # Gets =>
             (Gets'[Len(Gets')].returned <=>
                  session'._script_session_id # <<>>)]_vars

Assignment(sts, u, a) == sts[u].assignments[a]

\* the pairs that have a record in a dictionary of students
Recorded(sts) ==
    {p \in Range(Pairs) : /\ p[1] \in DOMAIN sts
                          /\ p[2] \in DOMAIN sts[p[1]].assignments}

\* C19: copy_student_data gives a freshly fetched record the attempts of the
\* previous snapshot exactly when the previous snapshot has the student and
\* the assignment, the score is the same in both, and it is not so that the
\* new record needs grading while the previous one did not (the new record's
\* attempts being unset, as they are on every fresh record); every other
\* fresh record keeps its attempts unset, and the previous snapshot is the
\* same after the copy, and until the refresh ends, as it was before
C19_CarriedForward ==
    [][/\ (refresh # "running" /\ refresh' = "running" /\ students # Unset) =>
            /\ prev' = students
            /\ \A p \in Recorded(students'[1]) :
                  Assignment(students'[1], p[1], p[2]).attempts =
                     IF /\ p \in Recorded(students[1])
                        /\ Assignment(students'[1], p[1], p[2]).score =
                              Assignment(students[1], p[1], p[2]).score
                        /\ ~(/\ Assignment(students'[1], p[1], p[2]).needs_grading
                             /\ ~Assignment(students[1], p[1], p[2]).needs_grading)
                     THEN Assignment(students[1], p[1], p[2]).attempts
                     ELSE None
       /\ (refresh = "running") => prev' = prev]_vars

\* a refresh has just copied from a previous snapshot: the first pair got
\* the attempts the snapshot had, the second, whose score has changed, did not
C19_Witness ==
    /\ refresh = "running"
    /\ batch.at = "loop"
    /\ batch.i = 0
    /\ prev # Unset
    /\ Pairs[1] \in Recorded(students[1]) \cap Recorded(prev[1])
    /\ Pairs[2] \in Recorded(students[1]) \cap Recorded(prev[1])
    /\ Assignment(students[1], 1, 1).attempts # None
    /\ Assignment(students[1], 1, 1).attempts = Assignment(prev[1], 1, 1).attempts
    /\ Assignment(students[1], 2, 1).attempts = None
    /\ Assignment(students[1], 2, 1).score # Assignment(prev[1], 2, 1).score
    /\ Assignment(prev[1], 2, 1).attempts # None

\* the requests of the running refresh with the pair p among their calls
PostsOf(p) ==
    SelectSeq(Posts, LAMBDA w : \E n \in 1..Len(w.calls) : w.calls[n][2] = p)

\* the pairs the running refresh has asked the server for
Requested == {p \in Range(Pairs) : PostsOf(p) # <<>>}

\* the attempts of the pair were carried forward from the previous snapshot
Carried(p) ==
    /\ prev # Unset
    /\ p \in Recorded(prev[1])
    /\ Assignment(prev[1], p[1], p[2]).attempts # None
    /\ Assignment(students[1], p[1], p[2]).score =
          Assignment(prev[1], p[1], p[2]).score
    /\ ~(/\ Assignment(students[1], p[1], p[2]).needs_grading
         /\ ~Assignment(prev[1], p[1], p[2]).needs_grading)

\* C20: after a refresh that returned, every assignment record of every
\* student has attempts set; in a refresh the pairs asked of the server are
\* pairs whose attempts were not carried forward from the previous
\* snapshot, each asked once, and when the data have come they are all of
\* those pairs; each datum is stored on the pair it was asked for, the
\* carried attempts staying as they are
C20_AttemptsSet ==
    /\ [](refresh = "returned" =>
             \A p \in Recorded(students[1]) :
                Assignment(students[1], p[1], p[2]).attempts # None)
    /\ [](refresh = "running" =>
             /\ \A p \in Requested :
                   /\ p \in Recorded(students[1])
                   /\ ~Carried(p)
                   /\ Len(PostsOf(p)) = 1
             /\ status.kind = "returned" =>
                   Requested = {p \in Recorded(students[1]) : ~Carried(p)})
    /\ [][(refresh = "running" /\ refresh' = "returned") =>
             /\ Recorded(students'[1]) = Recorded(students[1])
             /\ \A p \in Recorded(students[1]) :
                   Assignment(students'[1], p[1], p[2]) =
                      IF p \in Requested
                      THEN [Assignment(students[1], p[1], p[2])
                               EXCEPT !.attempts =
                                  Decoded(PostsOf(p)[1].reply, p)]
                      ELSE Assignment(students[1], p[1], p[2])]_vars

\* the second refresh has returned: the first had fetched both pairs in one
\* request, the second carried the attempts of the first pair forward and
\* fetched those of the second pair again, which the server answered in
\* another style
C20_Witness ==
    /\ refresh = "returned"
    /\ fetch_time = 2
    /\ Requested = {Pairs[2]}
    /\ \E k \in 1..Len(wire) :
          /\ wire[k].op = "post"
          /\ wire[k].call = 1
          /\ Len(wire[k].calls) = 2
          /\ wire[k].reply = "keyed"
    /\ Range(Pairs) = Recorded(students[1]) \cap Recorded(prev[1])
    /\ Assignment(students[1], 1, 1).attempts = Decoded("keyed", Pairs[1])
    /\ Assignment(students[1], 2, 1).attempts = Decoded("list", Pairs[2])
    /\ Assignment(prev[1], 2, 1).attempts = Decoded("keyed", Pairs[2])

====
